---- MODULE Spec2Model ----
(***************************************************************************)
(* Bring-js: the Bring configuration parser (src/src/index.ts).            *)
(*                                                                         *)
(* The input text is a sequence of one-character strings.  The parser's    *)
(* fields text/pos/line/col are the state; every private method of         *)
(* BringParser is an operator that takes the text and a cursor record      *)
(* [pos, line, col] and returns the cursor it leaves behind together with  *)
(* what it returns or the error it throws.  pos is 0-based as in the code, *)
(* so the character under the cursor is t[pos + 1].                        *)
(***************************************************************************)
EXTENDS Integers, Sequences, FiniteSets, TLC

VARIABLES text, pos, line, col, result, pc, err, ret, plain, json,
          extracted, calls, first

vars ==
  <<text, pos, line, col, result, pc, err, ret, plain, json, extracted, calls, first>>

(***************************************************************************)
(* Characters                                                              *)
(***************************************************************************)
NL == "\n"
TAB == "\t"
CR == "\r"
SP == " "
DQ == "\""
SQ == "'"
BS == "\\"
EOFCHAR == ""

Digits == {"0", "1", "2", "3", "4", "5", "6", "7", "8", "9"}

Letters ==
  {"a", "b", "c", "d", "e", "f", "g", "h", "i", "j", "k", "l", "m",
   "n", "o", "p", "q", "r", "s", "t", "u", "v", "w", "x", "y", "z",
   "A", "B", "C", "D", "E", "F", "G", "H", "I", "J", "K", "L", "M",
   "N", "O", "P", "Q", "R", "S", "T", "U", "V", "W", "X", "Y", "Z"}

\* /\d/
isDigit(ch) == ch \in Digits

\* /[a-zA-Z_]/
isIdentStart(ch) == ch \in Letters \cup {"_"}

\* /[a-zA-Z0-9_]/
isIdentPart(ch) == ch \in Letters \cup Digits \cup {"_"}

\* /\s/ restricted to the four whitespace characters of the input alphabet
isSpace(ch) == ch \in {SP, TAB, CR, NL}

DigitVal(ch) ==
  CASE ch = "0" -> 0 [] ch = "1" -> 1 [] ch = "2" -> 2 [] ch = "3" -> 3
    [] ch = "4" -> 4 [] ch = "5" -> 5 [] ch = "6" -> 6 [] ch = "7" -> 7
    [] ch = "8" -> 8 [] ch = "9" -> 9

\* the concatenation of a sequence of character sequences
RECURSIVE Flat(_)
Flat(ss) == IF ss = <<>> THEN <<>> ELSE Head(ss) \o Flat(Tail(ss))

(***************************************************************************)
(* Results of the parser's methods: the cursor left behind and either the  *)
(* returned value or the message of the BringParseError thrown there.      *)
(***************************************************************************)
Ok(c, v) == [ok |-> TRUE, c |-> c, v |-> v]
Fail(c, msg) == [ok |-> FALSE, c |-> c, v |-> msg]

StartCursor == [pos |-> 0, line |-> 1, col |-> 1]

\* the rest K of a method runs on what a call returned; an error thrown by the
\* call leaves the method at once and goes to its caller
Then(r, K(_)) == IF r.ok THEN K(r) ELSE r

(***************************************************************************)
(* Scanner                                                                 *)
(***************************************************************************)
isEof(t, c) == c.pos >= Len(t)

peek(t, c) == IF c.pos < Len(t) THEN t[c.pos + 1] ELSE EOFCHAR

\* pos counted up at the end of input as well
advancePastEnd(t, c) ==
  IF isEof(t, c) THEN [c EXCEPT !.pos = c.pos + 1]
  ELSE IF t[c.pos + 1] = NL
       THEN [pos |-> c.pos + 1, line |-> c.line + 1, col |-> 1]
       ELSE [pos |-> c.pos + 1, line |-> c.line, col |-> c.col + 1]

advance(t, c) ==
  IF isEof(t, c) THEN c
  ELSE IF t[c.pos + 1] = NL
       THEN [pos |-> c.pos + 1, line |-> c.line + 1, col |-> 1]
       ELSE [pos |-> c.pos + 1, line |-> c.line, col |-> c.col + 1]

\* the character advance() returns
advanceChar(t, c) == IF isEof(t, c) THEN EOFCHAR ELSE t[c.pos + 1]

RECURSIVE advanceN(_, _, _)
advanceN(t, c, n) == IF n = 0 THEN c ELSE advanceN(t, advance(t, c), n - 1)

\* the column started again at every white-space character
skipWhitespaceCountReset(t, c) ==
  IF peek(t, c) = NL
  THEN [c EXCEPT !.line = c.line + 1, !.col = 1]
  ELSE [c EXCEPT !.col = 1]

\* the line/col bookkeeping skipWhitespace does itself before it calls advance
skipWhitespaceCount(t, c) ==
  IF peek(t, c) = NL
  THEN [c EXCEPT !.line = c.line + 1, !.col = 1]
  ELSE [c EXCEPT !.col = c.col + 1]

RECURSIVE skipWhitespace(_, _)
skipWhitespace(t, c) ==
  IF ~isEof(t, c) /\ isSpace(peek(t, c))
  THEN skipWhitespace(t, advance(t, skipWhitespaceCount(t, c)))
  ELSE c

\* String.prototype.startsWith(s, pos)
startsWith(t, s, p) ==
  /\ p + Len(s) <= Len(t)
  /\ \A i \in 1..Len(s) : t[p + i] = s[i]

\* one character consumed when the literal is not there
matchOrSkip(t, c, s) ==
  IF startsWith(t, s, c.pos)
  THEN Ok(advanceN(t, c, Len(s)), TRUE)
  ELSE Ok(advance(t, c), FALSE)

\* a word matched only when no letter, digit or underscore follows it
matchWord(t, c, s) ==
  IF /\ startsWith(t, s, c.pos)
     /\ ~(c.pos + Len(s) < Len(t) /\ t[c.pos + Len(s) + 1] \in Letters \cup Digits \cup {"_"})
  THEN Ok(advanceN(t, c, Len(s)), TRUE)
  ELSE Ok(c, FALSE)

match(t, c, s) ==
  IF startsWith(t, s, c.pos)
  THEN Ok(advanceN(t, c, Len(s)), TRUE)
  ELSE Ok(c, FALSE)

expect(t, c, s) ==
  IF match(t, c, s).v THEN match(t, c, s) ELSE Fail(c, "Expected literal")

RECURSIVE skipToEol(_, _)
skipToEol(t, c) ==
  IF ~isEof(t, c) /\ peek(t, c) # NL THEN skipToEol(t, advance(t, c)) ELSE c

skipComment(t, c) ==
  Then(expect(t, c, <<"#">>), LAMBDA e : Ok(skipToEol(t, e.c), TRUE))

(***************************************************************************)
(* Scalars.  A JavaScript number is kept as sign, integer part and the     *)
(* fraction digits without trailing zeros, so that -0 and 0 are distinct   *)
(* values as they are for Object.is, and 1.50 and 1.5 are the same value.  *)
(***************************************************************************)
Str(s) == [k |-> "str", s |-> s]
Num(neg, int, frac) == [k |-> "num", neg |-> neg, int |-> int, frac |-> frac]
Bool(b) == [k |-> "bool", b |-> b]
Null == [k |-> "null"]

RECURSIVE IntOfDigits(_)
IntOfDigits(ds) ==
  IF ds = <<>> THEN 0
  ELSE 10 * IntOfDigits(SubSeq(ds, 1, Len(ds) - 1)) + DigitVal(ds[Len(ds)])

RECURSIVE StripZeros(_)
StripZeros(ds) ==
  IF ds # <<>> /\ ds[Len(ds)] = "0"
  THEN StripZeros(SubSeq(ds, 1, Len(ds) - 1))
  ELSE ds

\* index of the first "." of s, or Len(s) + 1
RECURSIVE DotIndex(_, _)
DotIndex(s, i) ==
  IF i > Len(s) \/ s[i] = "." THEN i ELSE DotIndex(s, i + 1)

\* parseInt(numStr, 10) on the text parseNumber has scanned: -?[0-9]+
parseIntJS(s) ==
  LET neg == s # <<>> /\ s[1] = "-"
      ds == IF neg THEN Tail(s) ELSE s
  IN Num(neg, IntOfDigits(ds), <<>>)

\* parseFloat(numStr) on the text parseNumber has scanned: -?[0-9]+.[0-9]+
parseFloatJS(s) ==
  LET neg == s # <<>> /\ s[1] = "-"
      ds == IF neg THEN Tail(s) ELSE s
      d == DotIndex(ds, 1)
  IN Num(neg, IntOfDigits(SubSeq(ds, 1, d - 1)),
         StripZeros(SubSeq(ds, d + 1, Len(ds))))

(***************************************************************************)
(* Lexical helpers                                                         *)
(***************************************************************************)
\* every escape standing for the character after the backslash
unescapeNone(ch) == ch

\* the switch over escapeChar in parseString
\* an escape outside the six known ones read as a question mark
unescapeKnown(ch) ==
  IF ch \in {"n", "t", "r", BS, DQ, SQ} THEN unescapeNone(ch) ELSE "?"

unescape(ch) ==
  CASE ch = "n" -> NL
    [] ch = "t" -> TAB
    [] ch = "r" -> CR
    [] OTHER -> ch

RECURSIVE parseStringLoop(_, _, _, _)
parseStringLoop(t, c, quoteChar, acc) ==
  IF ~isEof(t, c) /\ peek(t, c) # quoteChar
  THEN IF peek(t, c) = BS
       THEN LET c1 == advance(t, c)
            IN IF isEof(t, c1) THEN Fail(c1, "Unterminated string")
               ELSE parseStringLoop(t, advance(t, c1), quoteChar,
                                    Append(acc, unescape(advanceChar(t, c1))))
       ELSE parseStringLoop(t, advance(t, c), quoteChar,
                            Append(acc, advanceChar(t, c)))
  ELSE IF isEof(t, c) THEN Fail(c, "Unterminated string")
       ELSE Ok(advance(t, c), acc)

\* parseString handing back what it has read when the input ends in the literal
parseStringTruncated(t, c) ==
  [parseStringLoop(t, advance(t, c), peek(t, c), <<>>) EXCEPT !.ok = TRUE]

parseString(t, c) == parseStringLoop(t, advance(t, c), peek(t, c), <<>>)

RECURSIVE skipDigits(_, _)
skipDigits(t, c) ==
  IF ~isEof(t, c) /\ isDigit(peek(t, c)) THEN skipDigits(t, advance(t, c)) ELSE c

\* the integer digits only, a decimal point left unread
parseNumberInteger(t, c) ==
  LET c1 == IF peek(t, c) = "-" THEN advance(t, c) ELSE c
  IN IF ~isDigit(peek(t, c1)) THEN Fail(c1, "Expected digit after minus sign")
     ELSE Ok(skipDigits(t, c1), parseIntJS(SubSeq(t, c.pos + 1, skipDigits(t, c1).pos)))

parseNumber(t, c) ==
  LET c1 == IF peek(t, c) = "-" THEN advance(t, c) ELSE c
  IN IF ~isDigit(peek(t, c1)) THEN Fail(c1, "Expected digit after minus sign")
     ELSE LET c2 == skipDigits(t, c1)
          IN IF ~isEof(t, c2) /\ peek(t, c2) = "."
             THEN LET c3 == advance(t, c2)
                  IN IF ~isDigit(peek(t, c3))
                     THEN Fail(c3, "Expected digit after decimal point")
                     ELSE LET c4 == skipDigits(t, c3)
                          IN Ok(c4, parseFloatJS(SubSeq(t, c.pos + 1, c4.pos)))
             ELSE Ok(c2, parseIntJS(SubSeq(t, c.pos + 1, c2.pos)))

RECURSIVE parseIdentifierLoop(_, _, _)
parseIdentifierLoop(t, c, acc) ==
  IF ~isEof(t, c) /\ isIdentPart(peek(t, c))
  THEN parseIdentifierLoop(t, advance(t, c), Append(acc, advanceChar(t, c)))
  ELSE Ok(c, acc)

\* a digit accepted as the first character too
parseIdentifierAnyStart(t, c) ==
  IF ~isIdentPart(peek(t, c)) THEN Fail(c, "Expected identifier")
  ELSE parseIdentifierLoop(t, advance(t, c), <<advanceChar(t, c)>>)

parseIdentifier(t, c) ==
  IF ~isIdentStart(peek(t, c)) THEN Fail(c, "Expected identifier")
  ELSE parseIdentifierLoop(t, advance(t, c), <<advanceChar(t, c)>>)

parseKey(t, c) ==
  IF peek(t, c) = DQ \/ peek(t, c) = SQ
  THEN parseString(t, c)
  ELSE parseIdentifier(t, c)

\* null accepted where a scalar is expected
parsePrimitiveValueOrNull(t, c) ==
  IF match(t, c, <<"n", "u", "l", "l">>).v
  THEN Ok(match(t, c, <<"n", "u", "l", "l">>).c, Null)
  ELSE IF peek(t, c) = DQ \/ peek(t, c) = SQ
  THEN Then(parseString(t, c), LAMBDA s : Ok(s.c, Str(s.v)))
  ELSE IF isDigit(peek(t, c)) \/ peek(t, c) = "-" THEN parseNumber(t, c)
  ELSE Fail(c, "Expected primitive value")

parsePrimitiveValue(t, c) ==
  IF peek(t, c) = DQ \/ peek(t, c) = SQ
  THEN Then(parseString(t, c), LAMBDA s : Ok(s.c, Str(s.v)))
  ELSE IF isDigit(peek(t, c)) \/ peek(t, c) = "-" THEN parseNumber(t, c)
  ELSE IF match(t, c, <<"t", "r", "u", "e">>).v
       THEN Ok(match(t, c, <<"t", "r", "u", "e">>).c, Bool(TRUE))
  ELSE IF match(t, c, <<"f", "a", "l", "s", "e">>).v
       THEN Ok(match(t, c, <<"f", "a", "l", "s", "e">>).c, Bool(FALSE))
  ELSE Fail(c, "Expected primitive value")

(***************************************************************************)
(* Records with string keys (ParseResult, BringObject.items, and the plain *)
(* objects toObject builds) keep their own properties in JavaScript        *)
(* property order: canonical array-index keys ascending first, then the    *)
(* other keys in insertion order; assigning an existing key keeps its      *)
(* place.  They are sequences of [key, val] entries in that order.         *)
(***************************************************************************)
Keys(items) == {items[i].key : i \in 1..Len(items)}

HasKey(items, key) == key \in Keys(items)

Get(items, key) ==
  items[CHOOSE i \in 1..Len(items) : items[i].key = key].val

isIndexKey(key) ==
  /\ key # <<>>
  /\ \A i \in 1..Len(key) : isDigit(key[i])
  /\ Len(key) = 1 \/ key[1] # "0"

\* number of entries that stay in front of a new entry with this key
InsertAt(items, key) ==
  IF isIndexKey(key)
  THEN Cardinality({i \in 1..Len(items) :
                      /\ isIndexKey(items[i].key)
                      /\ IntOfDigits(items[i].key) < IntOfDigits(key)})
  ELSE Len(items)

\* an own property key of items is set to val
PutOwn(items, key, val) ==
  IF HasKey(items, key)
  THEN [i \in 1..Len(items) |->
          IF items[i].key = key THEN [key |-> key, val |-> val] ELSE items[i]]
  ELSE LET n == InsertAt(items, key)
       IN SubSeq(items, 1, n) \o <<[key |-> key, val |-> val]>>
            \o SubSeq(items, n + 1, Len(items))

\* the one key whose assignment is taken by a setter of Object.prototype
ProtoKey == <<"_", "_", "p", "r", "o", "t", "o", "_", "_">>

\* items[key] = val on an object created as {}: the assignment to __proto__
\* creates no own property
Put(items, key, val) ==
  IF key = ProtoKey THEN items ELSE PutOwn(items, key, val)

(***************************************************************************)
(* BringValue, BringSchema.  attributes = <<>> stands for a value without  *)
(* the optional attributes field: the parser sets the field only to a      *)
(* non-empty list.                                                         *)
(***************************************************************************)
BringPrimitive(v) == [type |-> "primitive", value |-> v, attributes |-> <<>>]
BringObject(items) == [type |-> "object", items |-> items, attributes |-> <<>>]
BringArray(items) == [type |-> "array", items |-> items, attributes |-> <<>>]
BringSchema(name, rules) == [name |-> name, rules |-> rules]

LitEq == <<"=">>
LitTrue == <<"t", "r", "u", "e">>
LitFalse == <<"f", "a", "l", "s", "e">>
LitNull == <<"n", "u", "l", "l">>
LitSchema == <<"s", "c", "h", "e", "m", "a">>

(***************************************************************************)
(* Value grammar                                                           *)
(***************************************************************************)
\* the while (peek() === "@") loop of parseKeyValuePair
RECURSIVE parseAttributes(_, _, _)
parseAttributes(t, c, attributes) ==
  IF peek(t, c) # "@" THEN Ok(c, attributes)
  ELSE Then(parseIdentifier(t, advance(t, c)), LAMBDA n :
       Then(expect(t, skipWhitespace(t, n.c), LitEq), LAMBDA e :
       Then(parsePrimitiveValue(t, skipWhitespace(t, e.c)), LAMBDA a :
         parseAttributes(t, skipWhitespace(t, a.c),
                         Append(attributes, [name |-> n.v, value |-> a.v])))))

RECURSIVE parseValue(_, _)
RECURSIVE parseObjectLoop(_, _, _)
RECURSIVE parseArrayLoop(_, _, _)
RECURSIVE parseKeyValuePair(_, _)

\* the attributes thrown away
withoutAttributes(value, attributes) == value

\* value.attributes = attributes, done only for a non-empty list
withAttributes(value, attributes) ==
  IF Len(attributes) > 0 THEN [value EXCEPT !.attributes = attributes] ELSE value

parseKeyValuePair(t, c) ==
  Then(parseKey(t, c), LAMBDA key :
  Then(parseAttributes(t, skipWhitespace(t, key.c), <<>>), LAMBDA attrs :
  Then(expect(t, attrs.c, LitEq), LAMBDA e :
  Then(parseValue(t, skipWhitespace(t, e.c)), LAMBDA value :
    Ok(value.c, [key |-> key.v, val |-> withAttributes(value.v, attrs.v)])))))

\* the optional "," after an object pair or an array element
skipComma(t, c) ==
  IF peek(t, c) = "," THEN skipWhitespace(t, advance(t, c)) ELSE c

parseObjectLoop(t, c, items) ==
  IF ~isEof(t, c) /\ peek(t, c) # "}"
  THEN IF peek(t, c) = "#"
       THEN parseObjectLoop(t, skipWhitespace(t, skipComment(t, c).c), items)
       ELSE Then(parseKeyValuePair(t, c), LAMBDA kvPair :
              parseObjectLoop(t, skipComma(t, skipWhitespace(t, kvPair.c)),
                              Put(items, kvPair.v.key, kvPair.v.val)))
  ELSE Ok(c, items)

parseObject(t, c) ==
  Then(expect(t, c, <<"{">>), LAMBDA open :
  Then(parseObjectLoop(t, skipWhitespace(t, open.c), <<>>), LAMBDA body :
  Then(expect(t, body.c, <<"}">>), LAMBDA close :
    Ok(close.c, BringObject(body.v)))))

parseArrayLoop(t, c, items) ==
  IF ~isEof(t, c) /\ peek(t, c) # "]"
  THEN IF peek(t, c) = "#"
       THEN parseArrayLoop(t, skipWhitespace(t, skipComment(t, c).c), items)
       ELSE Then(parseValue(t, c), LAMBDA item :
              parseArrayLoop(t, skipComma(t, skipWhitespace(t, item.c)),
                             Append(items, item.v)))
  ELSE Ok(c, items)

\* parseArray without the closing expect("]")
parseArrayUnclosed(t, c) ==
  Then(expect(t, c, <<"[">>), LAMBDA open :
  Then(parseArrayLoop(t, skipWhitespace(t, open.c), <<>>), LAMBDA body :
    Ok(body.c, BringArray(body.v))))

parseArray(t, c) ==
  Then(expect(t, c, <<"[">>), LAMBDA open :
  Then(parseArrayLoop(t, skipWhitespace(t, open.c), <<>>), LAMBDA body :
  Then(expect(t, body.c, <<"]">>), LAMBDA close :
    Ok(close.c, BringArray(body.v)))))

\* scalars only: no object, no array, no null
parseValueScalar(t, c) ==
  Then(parsePrimitiveValue(t, c), LAMBDA p : Ok(p.c, BringPrimitive(p.v)))

parseValue(t, c) ==
  IF peek(t, c) = "{" THEN parseObject(t, c)
  ELSE IF peek(t, c) = "[" THEN parseArray(t, c)
  ELSE IF peek(t, c) = DQ \/ peek(t, c) = SQ
       THEN Then(parseString(t, c), LAMBDA s : Ok(s.c, BringPrimitive(Str(s.v))))
  ELSE IF isDigit(peek(t, c)) \/ peek(t, c) = "-"
       THEN Then(parseNumber(t, c), LAMBDA n : Ok(n.c, BringPrimitive(n.v)))
  ELSE IF match(t, c, LitTrue).v
       THEN Ok(match(t, c, LitTrue).c, BringPrimitive(Bool(TRUE)))
  ELSE IF match(t, c, LitFalse).v
       THEN Ok(match(t, c, LitFalse).c, BringPrimitive(Bool(FALSE)))
  ELSE IF match(t, c, LitNull).v
       THEN Ok(match(t, c, LitNull).c, BringPrimitive(Null))
  ELSE Fail(c, "Unexpected character")

(***************************************************************************)
(* Schema grammar                                                          *)
(***************************************************************************)
\* the while (peek() === "@") loop of parseSchema
RECURSIVE parseRuleAttributes(_, _, _)
parseRuleAttributes(t, c, attrs) ==
  IF peek(t, c) # "@" THEN Ok(c, attrs)
  ELSE Then(parseIdentifier(t, advance(t, c)), LAMBDA n :
       Then(expect(t, skipWhitespace(t, n.c), LitEq), LAMBDA e :
       Then(parsePrimitiveValue(t, skipWhitespace(t, e.c)), LAMBDA a :
         parseRuleAttributes(t, skipWhitespace(t, a.c),
                             Append(attrs, [name |-> n.v, value |-> a.v])))))

RECURSIVE parseSchemaLoop(_, _, _)
parseSchemaLoop(t, c, rules) ==
  IF ~isEof(t, c) /\ peek(t, c) # "}"
  THEN IF peek(t, c) = "#"
       THEN parseSchemaLoop(t, skipWhitespace(t, skipComment(t, c).c), rules)
       ELSE Then(parseKey(t, c), LAMBDA key :
            Then(expect(t, skipWhitespace(t, key.c), LitEq), LAMBDA e :
            Then(parseIdentifier(t, skipWhitespace(t, e.c)), LAMBDA typeName :
            Then(parseRuleAttributes(t, skipWhitespace(t, typeName.c), <<>>), LAMBDA attrs :
              parseSchemaLoop(t, skipWhitespace(t, attrs.c),
                              Append(rules, [key |-> key.v,
                                             type |-> typeName.v,
                                             attributes |-> attrs.v]))))))
  ELSE Ok(c, rules)

parseSchema(t, c) ==
  Then(parseIdentifier(t, c), LAMBDA name :
  Then(expect(t, skipWhitespace(t, name.c), <<"{">>), LAMBDA open :
  Then(parseSchemaLoop(t, skipWhitespace(t, open.c), <<>>), LAMBDA body :
  Then(expect(t, body.c, <<"}">>), LAMBDA close :
    Ok(close.c, BringSchema(name.v, body.v))))))

(***************************************************************************)
(* One iteration of each loop, entered at a cursor where the loop's        *)
(* condition holds: the cursor the iteration ends at, or the error thrown  *)
(***************************************************************************)
\* while (!isEof() && peek() !== "}") in parseObject
objectIteration(t, c) ==
  IF peek(t, c) = "#"
  THEN Then(skipComment(t, c), LAMBDA k : Ok(skipWhitespace(t, k.c), TRUE))
  ELSE Then(parseKeyValuePair(t, c), LAMBDA kv :
         Ok(skipComma(t, skipWhitespace(t, kv.c)), TRUE))

\* while (!isEof() && peek() !== "]") in parseArray
arrayIteration(t, c) ==
  IF peek(t, c) = "#"
  THEN Then(skipComment(t, c), LAMBDA k : Ok(skipWhitespace(t, k.c), TRUE))
  ELSE Then(parseValue(t, c), LAMBDA v :
         Ok(skipComma(t, skipWhitespace(t, v.c)), TRUE))

\* while (!isEof() && peek() !== "}") in parseSchema
schemaIteration(t, c) ==
  IF peek(t, c) = "#"
  THEN Then(skipComment(t, c), LAMBDA k : Ok(skipWhitespace(t, k.c), TRUE))
  ELSE Then(parseKey(t, c), LAMBDA key :
       Then(expect(t, skipWhitespace(t, key.c), LitEq), LAMBDA e :
       Then(parseIdentifier(t, skipWhitespace(t, e.c)), LAMBDA typeName :
       Then(parseRuleAttributes(t, skipWhitespace(t, typeName.c), <<>>), LAMBDA attrs :
         Ok(skipWhitespace(t, attrs.c), TRUE)))))

\* while (peek() === "@") in parseKeyValuePair and in parseSchema
attributeIteration(t, c) ==
  Then(parseIdentifier(t, advance(t, c)), LAMBDA n :
  Then(expect(t, skipWhitespace(t, n.c), LitEq), LAMBDA e :
  Then(parsePrimitiveValue(t, skipWhitespace(t, e.c)), LAMBDA a :
    Ok(skipWhitespace(t, a.c), TRUE))))

\* while (!isEof() && peek() !== quoteChar) in parseString
stringIteration(t, c) ==
  IF peek(t, c) = BS
  THEN IF isEof(t, advance(t, c)) THEN Fail(advance(t, c), "Unterminated string")
       ELSE Ok(advance(t, advance(t, c)), TRUE)
  ELSE Ok(advance(t, c), TRUE)

\* the body this.advance() of the digit, identifier and comment loops, and the
\* body of the loop of skipWhitespace
advanceIteration(t, c) == Ok(advance(t, c), TRUE)

whitespaceIteration(t, c) == Ok(advance(t, skipWhitespaceCount(t, c)), TRUE)

(***************************************************************************)
(* Document driver: one iteration of the while loop of BringParser.parse   *)
(***************************************************************************)
\* the schema stored under its bare name
SchemaKeyBare(name) == name

SchemaKey(name) == LitSchema \o <<":">> \o name

NoError == [thrown |-> FALSE]

\* the error built without the cursor: the constructor's defaults
errorDefaults(c, message) ==
  [thrown |-> TRUE, message |-> message, line |-> 0, column |-> 0, position |-> 0]

\* new BringParseError(message, this.line, this.col, this.pos)
error(c, message) ==
  [thrown |-> TRUE, message |-> message,
   line |-> c.line, column |-> c.col, position |-> c.pos]

Cursor == [pos |-> pos, line |-> line, col |-> col]

\* the word schema taken only when no identifier character follows it
BranchWord(t, c) ==
  IF isEof(t, skipWhitespace(t, c)) THEN "eof"
  ELSE IF peek(t, skipWhitespace(t, c)) = "#" THEN "comment"
  ELSE IF /\ match(t, skipWhitespace(t, c), LitSchema).v
          /\ peek(t, match(t, skipWhitespace(t, c), LitSchema).c) \notin
               Letters \cup Digits \cup {"_"}
       THEN "schema"
  ELSE "pair"

\* which branch of the loop body is taken at cursor c
Branch(t, c) ==
  IF isEof(t, skipWhitespace(t, c)) THEN "eof"
  ELSE IF peek(t, skipWhitespace(t, c)) = "#" THEN "comment"
  ELSE IF match(t, skipWhitespace(t, c), LitSchema).v THEN "schema"
  ELSE "pair"

\* one pass through the loop body from cursor c with the entries collected so
\* far: the cursor and the entries it leaves, or the error it throws
parseIteration(t, c, entries) ==
  CASE Branch(t, c) = "eof" -> Ok(skipWhitespace(t, c), entries)
    [] Branch(t, c) = "comment" ->
         Then(skipComment(t, skipWhitespace(t, c)), LAMBDA s : Ok(s.c, entries))
    [] Branch(t, c) = "schema" ->
         Then(parseSchema(t, skipWhitespace(t,
                match(t, skipWhitespace(t, c), LitSchema).c)), LAMBDA schema :
           Ok(schema.c, Put(entries, SchemaKey(schema.v.name), schema.v)))
    [] Branch(t, c) = "pair" ->
         Then(parseKeyValuePair(t, skipWhitespace(t, c)), LAMBDA kvPair :
           Ok(kvPair.c, Put(entries, kvPair.v.key, kvPair.v.val)))

\* the whole of parse() on text t: the ParseResult returned or the error thrown
RECURSIVE parseFrom(_, _, _)
parseFrom(t, c, entries) ==
  IF isEof(t, c) THEN Ok(c, entries)
  ELSE IF Branch(t, c) = "eof" THEN parseIteration(t, c, entries)
  ELSE Then(parseIteration(t, c, entries), LAMBDA it : parseFrom(t, it.c, it.v))

parse(t) == parseFrom(t, StartCursor, <<>>)

(***************************************************************************)
(* Plain JavaScript data: the scalars above, objects and arrays.           *)
(***************************************************************************)
Obj(items) == [k |-> "obj", items |-> items]
Arr(items) == [k |-> "arr", items |-> items]

KeyType == <<"t", "y", "p", "e">>
KeyName == <<"n", "a", "m", "e">>
KeyValue == <<"v", "a", "l", "u", "e">>
KeyItems == <<"i", "t", "e", "m", "s">>
KeyAttributes == <<"a", "t", "t", "r", "i", "b", "u", "t", "e", "s">>
KeyRules == <<"r", "u", "l", "e", "s">>
KeyKey == <<"k", "e", "y">>
TagPrimitive == <<"p", "r", "i", "m", "i", "t", "i", "v", "e">>
TagObject == <<"o", "b", "j", "e", "c", "t">>
TagArray == <<"a", "r", "r", "a", "y">>

\* isBringValue on a value stored in a ParseResult or in a BringValue
isBringValue(val) ==
  /\ "type" \in DOMAIN val
  /\ val.type \in {"primitive", "object", "array"}

isBringSchema(val) == "name" \in DOMAIN val /\ "rules" \in DOMAIN val

\* isParseResult on the object parse() returned: no own property "type" or "name"
isParseResult(doc) == ~HasKey(doc, KeyType) /\ ~HasKey(doc, KeyName)

\* isBringValue on the object parse() returned: its "type" property, when it has
\* one, holds a BringValue or BringSchema object and never one of the tag strings
isBringValueDoc(doc) == HasKey(doc, KeyType) /\ FALSE

\* a BringAttribute[] as the plain data it is
plainAttributes(attrs) ==
  Arr([i \in 1..Len(attrs) |->
         Obj(<<[key |-> KeyName, val |-> Str(attrs[i].name)],
               [key |-> KeyValue, val |-> attrs[i].value]>>)])

\* a BringValue object as the plain data it is: { type, value | items, attributes? }
RECURSIVE plainValue(_)
plainValue(v) ==
  LET attrs == IF v.attributes = <<>> THEN <<>>
               ELSE <<[key |-> KeyAttributes, val |-> plainAttributes(v.attributes)]>>
  IN IF v.type = "primitive"
     THEN Obj(<<[key |-> KeyType, val |-> Str(TagPrimitive)],
                [key |-> KeyValue, val |-> v.value]>> \o attrs)
     ELSE IF v.type = "object"
     THEN Obj(<<[key |-> KeyType, val |-> Str(TagObject)],
                [key |-> KeyItems,
                 val |-> Obj([i \in 1..Len(v.items) |->
                               [key |-> v.items[i].key,
                                val |-> plainValue(v.items[i].val)]])]>> \o attrs)
     ELSE Obj(<<[key |-> KeyType, val |-> Str(TagArray)],
                [key |-> KeyItems,
                 val |-> Arr([i \in 1..Len(v.items) |-> plainValue(v.items[i])])]>>
              \o attrs)

\* a BringSchema object as the plain data it is: { name, rules: [{ key, type, attributes }] }
plainSchema(sch) ==
  Obj(<<[key |-> KeyName, val |-> Str(sch.name)],
        [key |-> KeyRules,
         val |-> Arr([i \in 1..Len(sch.rules) |->
                       Obj(<<[key |-> KeyKey, val |-> Str(sch.rules[i].key)],
                             [key |-> KeyType, val |-> Str(sch.rules[i].type)],
                             [key |-> KeyAttributes,
                              val |-> plainAttributes(sch.rules[i].attributes)]>>)])]>>)

\* the ParseResult object itself, as toObject's fallback returns it
plainParseResult(doc) ==
  Obj([i \in 1..Len(doc) |->
         [key |-> doc[i].key,
          val |-> IF isBringValue(doc[i].val) THEN plainValue(doc[i].val)
                  ELSE plainSchema(doc[i].val)]])

(***************************************************************************)
(* toObject                                                                *)
(***************************************************************************)
RECURSIVE toObjectValue(_)
RECURSIVE toObjectItems(_, _, _)

\* for (const [key, val] of Object.entries(value.items)) obj[key] = toObject(val)
toObjectItems(items, i, obj) ==
  IF i > Len(items) THEN obj
  ELSE toObjectItems(items, i + 1,
                     Put(obj, items[i].key, toObjectValue(items[i].val)))

\* toObject on a BringValue
toObjectValue(v) ==
  IF v.type = "primitive" THEN v.value
  ELSE IF v.type = "object" THEN Obj(toObjectItems(v.items, 1, <<>>))
  ELSE Arr([i \in 1..Len(v.items) |-> toObjectValue(v.items[i])])

SchemaPrefix == LitSchema \o <<":">>

\* the entries toObject copies out of a ParseResult
keepEntry(key, val) == ~startsWith(key, SchemaPrefix, 0) /\ isBringValue(val)

RECURSIVE toObjectEntries(_, _, _)
toObjectEntries(doc, i, obj) ==
  IF i > Len(doc) THEN obj
  ELSE toObjectEntries(doc, i + 1,
         IF keepEntry(doc[i].key, doc[i].val)
         THEN Put(obj, doc[i].key, toObjectValue(doc[i].val))
         ELSE obj)

\* toObject on the ParseResult parse() returned
toObject(doc) ==
  IF isParseResult(doc) THEN Obj(toObjectEntries(doc, 1, <<>>))
  ELSE IF isBringValueDoc(doc) THEN Obj(<<>>)
  ELSE plainParseResult(doc)

(***************************************************************************)
(* toJSON: JSON.stringify(toObject(bringValue), null, indent)              *)
(***************************************************************************)
DefaultIndent == 2

DigitChar(d) == CHOOSE ch \in Digits : DigitVal(ch) = d

RECURSIVE NatToDigits(_)
NatToDigits(n) ==
  IF n < 10 THEN <<DigitChar(n)>>
  ELSE NatToDigits(n \div 10) \o <<DigitChar(n % 10)>>

\* Number::toString for the numbers parseNumber produces; negative zero prints as 0
NumberToString(n) ==
  IF n.int = 0 /\ n.frac = <<>> THEN <<"0">>
  ELSE (IF n.neg THEN <<"-">> ELSE <<>>) \o NatToDigits(n.int)
         \o (IF n.frac = <<>> THEN <<>> ELSE <<".">> \o n.frac)

\* JSON.stringify's QuoteJSONString
QuoteChar(ch) ==
  CASE ch = DQ -> <<BS, DQ>>
    [] ch = BS -> <<BS, BS>>
    [] ch = NL -> <<BS, "n">>
    [] ch = TAB -> <<BS, "t">>
    [] ch = CR -> <<BS, "r">>
    [] OTHER -> <<ch>>

QuoteJSONString(str) == <<DQ>> \o Flat([i \in 1..Len(str) |-> QuoteChar(str[i])]) \o <<DQ>>

Indentation(indent, depth) == [i \in 1..(indent * depth) |-> SP]

RECURSIVE JoinLines(_)
JoinLines(parts) ==
  IF Len(parts) = 1 THEN parts[1]
  ELSE parts[1] \o <<",", NL>> \o JoinLines(Tail(parts))

\* JSON.stringify(value, null, indent) at nesting depth `depth`
RECURSIVE SerializeJSON(_, _, _)
SerializeJSON(v, indent, depth) ==
  CASE v.k = "str" -> QuoteJSONString(v.s)
    [] v.k = "num" -> NumberToString(v)
    [] v.k = "bool" -> IF v.b THEN LitTrue ELSE LitFalse
    [] v.k = "null" -> LitNull
    [] v.k = "arr" ->
         IF v.items = <<>> THEN <<"[", "]">>
         ELSE <<"[", NL>>
                \o JoinLines([i \in 1..Len(v.items) |->
                     Indentation(indent, depth + 1)
                       \o SerializeJSON(v.items[i], indent, depth + 1)])
                \o <<NL>> \o Indentation(indent, depth) \o <<"]">>
    [] v.k = "obj" ->
         IF v.items = <<>> THEN <<"{", "}">>
         ELSE <<"{", NL>>
                \o JoinLines([i \in 1..Len(v.items) |->
                     Indentation(indent, depth + 1)
                       \o QuoteJSONString(v.items[i].key) \o <<":", SP>>
                       \o SerializeJSON(v.items[i].val, indent, depth + 1)])
                \o <<NL>> \o Indentation(indent, depth) \o <<"}">>

toJSON(doc, indent) == SerializeJSON(toObject(doc), indent, 0)

(***************************************************************************)
(* extractAttributes                                                       *)
(***************************************************************************)
\* path ? `${path}.${name}` : name
dotPath(path, name) == IF path # <<>> THEN path \o <<".">> \o name ELSE name

\* path ? `${path}[${index}]` : `[${index}]`
indexPath(path, index) == path \o <<"[">> \o NatToDigits(index) \o <<"]">>

RECURSIVE extract(_, _, _)
RECURSIVE extractOwn(_, _, _, _)
RECURSIVE extractEntries(_, _, _, _)
RECURSIVE extractElements(_, _, _, _)

\* for (const attr of value.attributes) attributes[attrPath] = attr.value
extractOwn(attrs, i, path, attributes) ==
  IF i > Len(attrs) THEN attributes
  ELSE extractOwn(attrs, i + 1, path,
                  Put(attributes, dotPath(path, attrs[i].name), attrs[i].value))

\* for (const [key, item] of Object.entries(value.items)) extract(item, newPath)
extractEntries(items, i, path, attributes) ==
  IF i > Len(items) THEN attributes
  ELSE extractEntries(items, i + 1, path,
                      extract(items[i].val, dotPath(path, items[i].key), attributes))

\* value.items.forEach((item, index) => extract(item, newPath))
extractElements(items, i, path, attributes) ==
  IF i > Len(items) THEN attributes
  ELSE extractElements(items, i + 1, path,
                       extract(items[i], indexPath(path, i - 1), attributes))

\* the inner function extract(value, path) on the attributes collected so far
extract(value, path, attributes) ==
  IF value.type = "object"
  THEN extractEntries(value.items, 1, path,
                      extractOwn(value.attributes, 1, path, attributes))
  ELSE IF value.type = "array"
  THEN extractElements(value.items, 1, path,
                       extractOwn(value.attributes, 1, path, attributes))
  ELSE extractOwn(value.attributes, 1, path, attributes)

extractAttributes(bringValue) == extract(bringValue, <<>>, <<>>)

(***************************************************************************)
(* Inputs: texts made of at most a bounded number of fragments             *)
(***************************************************************************)
FragSeqs(alpha, n) == UNION {[1..m -> alpha] : m \in 0..n}

Texts(prefix, alpha, n) == {prefix \o Flat(b) : b \in FragSeqs(alpha, n)}

MaxFrags == 4

\* port = 8080 @min=1024 @max=65535   (test "parses attributes")
TextPort ==
  <<"p", "o", "r", "t", " ", "=", " ", "8", "0", "8", "0", " ",
    "@", "m", "i", "n", "=", "1", "0", "2", "4", " ",
    "@", "m", "a", "x", "=", "6", "5", "5", "3", "5">>

\* invalid = @#$   (test "provides error position information")
TextInvalid ==
  <<"i", "n", "v", "a", "l", "i", "d", " ", "=", " ", "@", "#", "$">>

\* fragments of key/value pairs with attribute clauses
AttrA == <<"@", "a", "=", "1">>
AttrB == <<"@", "b", "=", "'", "x", "'">>

AttrFrags == {<<"p">>, <<"=">>, <<"8">>, <<" ">>, AttrA, AttrB}

AttrOf(frag) ==
  IF frag = AttrA THEN [name |-> <<"a">>, value |-> Num(FALSE, 1, <<>>)]
  ELSE [name |-> <<"b">>, value |-> Str(<<"x">>)]

AttrSeqs == UNION {[1..m -> {AttrA, AttrB}] : m \in 1..2}

\* p=8 @.. @..  : the attribute clauses written after the value
PairThenAttrs(as) ==
  <<"p", "=", "8">> \o Flat([i \in 1..Len(as) |-> <<" ">> \o as[i]])

NestedPairThenAttrs(as) == <<"q", "=", "{">> \o PairThenAttrs(as) \o <<"}">>

AfterValueTexts ==
  {PairThenAttrs(as) : as \in AttrSeqs} \cup {NestedPairThenAttrs(as) : as \in AttrSeqs}

\* whole top-level entries, each ended by a blank or a newline
EntryA == <<"a", "=", "1", " ">>
EntryName == <<"n", "a", "m", "e", "=", "'", "x", "'", " ">>
EntryType == <<"t", "y", "p", "e", "=", "t", "r", "u", "e", " ">>
EntryNull == <<"b", "=", "n", "u", "l", "l", NL>>
EntrySchema == <<"s", "c", "h", "e", "m", "a", " ", "U", "{", "i", "=", "n", "}", " ">>
EntryNested == <<"c", "=", "{", "d", "=", "[", "-", "0", ".", "5", "]", "}", " ">>
EntryComment == <<"#", "z", NL>>
EntryBad == <<"a", "=", "$">>
EntryQuoted == <<DQ, "s", "c", "h", "e", "m", "a", ":", "U", DQ, "=", "2", " ">>
EntryIndex == <<"'", "7", "'", "=", "n", "u", "l", "l", " ">>
EntryNegZero == <<"z", "=", "-", "0", " ">>
EntryEscapes == <<"s", "=", DQ, BS, DQ, BS, "n", BS, BS, "'", DQ, " ">>

DocFrags ==
  {EntryA, EntryName, EntryType, EntryNull, EntrySchema, EntryNested,
   EntryComment, EntryBad}

\* entries with quoted keys
QuotedFrags == {EntryQuoted, EntryIndex, EntryA, EntrySchema, EntryNegZero, EntryEscapes}

\* pieces of arrays and objects
ListFrags ==
  {<<"[", "1">>, <<"]">>, <<"{", "a", "=", "2">>, <<"}">>, <<",">>,
   <<"#", "c", NL>>, <<" ">>}

\* texts for the scanner operations
ScanChars == {<<"a">>, <<" ">>, <<NL>>, <<"#">>, <<"=">>}

ScanLits == {<<"a">>, <<"=">>, <<"a", "=">>, <<NL>>, <<"#">>}

\* string literals: an opening quote q, at most MaxPieces pieces (an escape or
\* a character that is not q), and then the closing quote or the end of input
MaxPieces == 2

Escapes ==
  {<<BS, "n">>, <<BS, "t">>, <<BS, "r">>, <<BS, BS>>, <<BS, DQ>>, <<BS, SQ>>}

Quotes == {DQ, SQ}

OtherQuote(q) == IF q = DQ THEN SQ ELSE DQ

Pieces(q) == Escapes \cup {<<"a">>, <<"#">>, <<OtherQuote(q)>>}

StringBodies(q) == FragSeqs(Pieces(q), MaxPieces)

Literal(q, body) == <<q>> \o Flat(body) \o <<q>>

\* name = "unterminated   (test "throws error for unterminated string")
TextUnterminated ==
  <<"n", "a", "m", "e", " ", "=", " ", DQ,
    "u", "n", "t", "e", "r", "m", "i", "n", "a", "t", "e", "d">>

QuotedBodies == UNION {{[q |-> q, body |-> b] : b \in StringBodies(q)} : q \in Quotes}

\* the literal as a value and as a key
StringTexts ==
  UNION {{<<"s", "=">> \o Literal(x.q, x.body), Literal(x.q, x.body) \o <<"=", "1">>} :
           x \in QuotedBodies}

\* the literal without its closing quote, the input ending in it or right after
\* a backslash
UnterminatedTexts ==
  {TextUnterminated} \cup
  UNION {{<<"s", "=", x.q>> \o Flat(x.body) \o tail, <<x.q>> \o Flat(x.body) \o tail} :
           x \in QuotedBodies, tail \in {<<>>, <<BS>>}}

\* obj = { key = "value"   (test "throws error for missing closing brace")
TextMissingBrace ==
  <<"o", "b", "j", " ", "=", " ", "{", " ", "k", "e", "y", " ", "=", " ",
    DQ, "v", "a", "l", "u", "e", DQ>>

\* schema User { id = number @min=1 }
TextSchemaUser ==
  <<"s", "c", "h", "e", "m", "a", " ", "U", "s", "e", "r", " ", "{", " ",
    "i", "d", " ", "=", " ", "n", "u", "m", "b", "e", "r", " ",
    "@", "m", "i", "n", "=", "1", " ", "}">>

\* schema declarations: at most MaxRules rules, each a key, a type name and
\* the attribute clauses written after the type name
MaxRules == 2

Rule(key, type, as) == [key |-> key, type |-> type, as |-> as]

Rules ==
  {Rule(<<"i">>, <<"n">>, <<>>),
   Rule(<<"j">>, <<"s">>, <<AttrA>>),
   Rule(<<"i">>, <<"s">>, <<AttrA, AttrB>>),
   Rule(<<"k", "2">>, <<"n">>, <<AttrB, AttrB>>)}

RuleLists == FragSeqs(Rules, MaxRules)

RuleText(r) ==
  r.key \o <<"=">> \o r.type
    \o Flat([i \in 1..Len(r.as) |-> <<" ">> \o r.as[i]]) \o <<NL>>

SchemaOpen(rs) ==
  <<"s", "c", "h", "e", "m", "a", " ", "U", "{">>
    \o Flat([i \in 1..Len(rs) |-> RuleText(rs[i])])

SchemaText(rs) == SchemaOpen(rs) \o <<"}">>

SchemaTexts == {TextSchemaUser} \cup {SchemaText(rs) : rs \in RuleLists}

\* the same declarations with the closing brace missing
UnclosedSchemaTexts == {TextMissingBrace} \cup {SchemaOpen(rs) : rs \in RuleLists}

\* top-level entries with colliding keys: the source text, the Document key it
\* is stored under and the Value or Schema it denotes; a comment stores nothing
MaxEntries == 2

Entry(src, key, val) == [src |-> src, stores |-> TRUE, key |-> key, val |-> val]

DupEntries ==
  {Entry(<<"a", "=", "1", " ">>, <<"a">>, BringPrimitive(Num(FALSE, 1, <<>>))),
   Entry(<<"a", "=", "2", NL>>, <<"a">>, BringPrimitive(Num(FALSE, 2, <<>>))),
   Entry(<<DQ, "a", DQ, "=", "'", "x", "'", " ">>, <<"a">>, BringPrimitive(Str(<<"x">>))),
   Entry(<<"b", "=", "{", "a", "=", "1", " ", "a", "=", "2", ",", "a", "=", "[", "]", "}", " ">>,
         <<"b">>,
         BringObject(<<[key |-> <<"a">>, val |-> BringArray(<<>>)]>>)),
   Entry(<<"s", "c", "h", "e", "m", "a", " ", "U", "{", "i", "=", "n", "}", " ">>,
         <<"s", "c", "h", "e", "m", "a", ":", "U">>,
         [name |-> <<"U">>,
          rules |-> <<[key |-> <<"i">>, type |-> <<"n">>, attributes |-> <<>>]>>]),
   Entry(<<"s", "c", "h", "e", "m", "a", " ", "U", "{", "}", " ">>,
         <<"s", "c", "h", "e", "m", "a", ":", "U">>,
         [name |-> <<"U">>, rules |-> <<>>]),
   Entry(<<DQ, "s", "c", "h", "e", "m", "a", ":", "U", DQ, "=", "2", " ">>,
         <<"s", "c", "h", "e", "m", "a", ":", "U">>, BringPrimitive(Num(FALSE, 2, <<>>))),
   Entry(<<"_", "_", "p", "r", "o", "t", "o", "_", "_", "=", "1", " ">>,
         <<"_", "_", "p", "r", "o", "t", "o", "_", "_">>, BringPrimitive(Num(FALSE, 1, <<>>))),
   [src |-> <<"#", "c", NL>>, stores |-> FALSE]}

EntryLists == FragSeqs(DupEntries, MaxEntries)

EntriesText(es) == Flat([i \in 1..Len(es) |-> es[i].src])

DupInputs == {EntriesText(es) : es \in EntryLists}

\* pairs with at most MaxAttrs attribute clauses between the key and "="
MaxAttrs == 3

AttrLists == FragSeqs({AttrA, AttrB}, MaxAttrs)

Seps == {<<>>, <<" ">>}

Clauses(as, sep) == Flat([i \in 1..Len(as) |-> sep \o as[i]])

\* p @.. @.. = 8
KeyAttrsPair(as, sep) == <<"p">> \o Clauses(as, sep) \o sep \o <<"=">> \o sep \o <<"8">>

InObject(pair) == <<"q", "=", "{">> \o pair \o <<"}">>

KeyAttrsTexts ==
  UNION {{KeyAttrsPair(as, sep), InObject(KeyAttrsPair(as, sep))} :
           as \in AttrLists, sep \in Seps}

\* the clause with a blank where its "=" was
WithoutEq(clause) == <<clause[1], clause[2], " ">> \o SubSeq(clause, 4, Len(clause))

BrokenAt(as, k) == [i \in 1..Len(as) |-> IF i = k THEN WithoutEq(as[i]) ELSE as[i]]

\* a clause without "=" between name and scalar, or no "=" before the value
BadAttrPairs ==
  {<<"p">> \o Clauses(as, <<" ">>) \o <<" ", "8">> : as \in AttrLists}
    \cup UNION {{KeyAttrsPair(BrokenAt(as, k), <<" ">>) : k \in 1..Len(as)} :
                  as \in AttrLists}

BadAttrTexts == BadAttrPairs \cup {InObject(pair) : pair \in BadAttrPairs}

\* Values with attributes, as written: a node is a primitive, an object with
\* its members in written order or an array with its elements, and carries
\* the attribute clauses written at its key
MaxMembers == 2

Att(name, n) == [name |-> name, n |-> n]

DPrim(attrs) == [kind |-> "prim", attrs |-> attrs]
DObj(attrs, members) == [kind |-> "obj", attrs |-> attrs, members |-> members]
DArr(attrs, elems) == [kind |-> "arr", attrs |-> attrs, elems |-> elems]

Member(key, quoted, node) == [key |-> key, quoted |-> quoted, node |-> node]

LeafK(n) == Member(<<"k">>, FALSE, DPrim(<<Att(<<"a">>, n)>>))

Members ==
  {LeafK(1),
   Member(<<"o">>, FALSE, DObj(<<Att(<<"b">>, 1)>>, <<LeafK(2)>>)),
   Member(<<"o", ".", "k">>, TRUE, DPrim(<<Att(<<"a">>, 3)>>)),
   Member(<<"l">>, FALSE, DArr(<<>>, <<DPrim(<<>>), DObj(<<>>, <<LeafK(4)>>)>>)),
   Member(<<"l", "[", "1", "]">>, TRUE, DObj(<<>>, <<LeafK(5)>>)),
   Member(<<"0">>, TRUE,
          DObj(<<>>, <<Member(<<"z">>, FALSE, DPrim(<<Att(<<"a">>, 6)>>))>>)),
   Member(<<"0", ".", "z">>, TRUE, DPrim(<<Att(<<"a">>, 7)>>))}

\* lists of members with different keys
MemberLists ==
  {ms \in FragSeqs(Members, MaxMembers) :
     \A i, j \in 1..Len(ms) : i # j => ms[i].key # ms[j].key}

Roots ==
  {Member(<<"r">>, FALSE, DObj(attrs, ms)) :
     attrs \in {<<>>, <<Att(<<"a">>, 9), Att(<<"b">>, 9)>>}, ms \in MemberLists}
    \cup {Member(<<"r">>, FALSE,
                 DArr(<<Att(<<"b">>, 2)>>, <<DPrim(<<>>), DObj(<<>>, <<LeafK(1)>>)>>))}

AttrsText(attrs) ==
  Flat([i \in 1..Len(attrs) |->
          <<" ", "@">> \o attrs[i].name \o <<"=">> \o NatToDigits(attrs[i].n)])

RECURSIVE NodeText(_)
RECURSIVE MemberText(_)

NodeText(d) ==
  CASE d.kind = "prim" -> <<"8">>
    [] d.kind = "obj" ->
         <<"{">> \o Flat([i \in 1..Len(d.members) |-> MemberText(d.members[i])]) \o <<"}">>
    [] d.kind = "arr" ->
         <<"[">> \o Flat([i \in 1..Len(d.elems) |-> NodeText(d.elems[i]) \o <<" ">>]) \o <<"]">>

\* key @.. @.. =value
MemberText(m) ==
  (IF m.quoted THEN <<DQ>> \o m.key \o <<DQ>> ELSE m.key)
    \o AttrsText(m.node.attrs) \o <<" ", "=">> \o NodeText(m.node) \o <<" ">>

TreeTexts == {MemberText(root) : root \in Roots}

\* Attribute clauses whose value is not a scalar: an array, an object, null,
\* or nothing at all before the next token
MaxGood == 1

LitArray1 == <<"[", "1", "]">>
LitObjectB == <<"{", "b", "=", "1", "}">>

NonScalars == {LitArray1, <<"[", "]">>, LitObjectB, <<"{", "}">>, LitNull, <<>>}

\* @c=V
ClauseC(v, sep) == <<"@", "c", "=">> \o sep \o v

GoodLists == FragSeqs({AttrA, AttrB}, MaxGood)

\* p @.. @c=V =8
BadBeforeEq(good, v, sep) ==
  <<"p">> \o Clauses(good, <<" ">>) \o <<" ">> \o ClauseC(v, sep) \o <<" ", "=", "8">>

\* p=8 @.. @c=V         and the same followed by the pair q=9
BadAfterValue(good, v, sep) ==
  <<"p", "=", "8">> \o Clauses(good, <<" ">>) \o <<" ">> \o ClauseC(v, sep) \o <<" ">>

\* schema U{i=n @.. @c=V
\* }
BadInRule(good, v, sep) ==
  <<"s", "c", "h", "e", "m", "a", " ", "U", "{", "i", "=", "n">>
    \o Clauses(good, <<" ">>) \o <<" ">> \o ClauseC(v, sep) \o <<NL, "}">>

BadValueTextsOf(good, v, sep) ==
  {BadBeforeEq(good, v, sep), InObject(BadBeforeEq(good, v, sep)),
   BadAfterValue(good, v, sep),
   BadAfterValue(good, v, sep) \o <<NL, "q", "=", "9">>,
   BadInRule(good, v, sep)}

BadValueTexts ==
  UNION {BadValueTextsOf(good, v, sep) :
           good \in GoodLists, v \in NonScalars, sep \in Seps}

\* string literals with a backslash in front of a character that is none of
\* n t r \ " '
UnknownEscapes ==
  {<<BS, "q">>, <<BS, "u">>, <<BS, "0">>, <<BS, "#">>, <<BS, SP>>, <<BS, NL>>}

UnknownBodies ==
  {b \in FragSeqs(UnknownEscapes \cup {<<"a">>, <<BS, "n">>}, MaxPieces) :
     \E i \in 1..Len(b) : b[i] \in UnknownEscapes}

UnknownEscapeTexts ==
  UNION {{<<"s", "=">> \o Literal(q, b), Literal(q, b) \o <<"=", "1">>} :
           q \in Quotes, b \in UnknownBodies}

\* arrays x=[1 s 2 s 3] and objects x={k1=1 s k2=2 s k3=3} of up to MaxElems
\* members, with a separator s between consecutive members
MaxElems == 3

BlankSeps == {<<" ">>, <<",">>, <<",", " ">>, <<" ", ",">>, <<NL, ",", NL>>}

\* a comment without a comma, after the comma, and in front of the comma
CommentSeps == {<<"#", "c", NL>>, <<",", "#", "c", NL>>, <<"#", "c", NL, ",">>}

TwoCommas == {<<",", ",">>, <<",", " ", ",">>}

SepLists(seps) == UNION {[1..m -> seps] : m \in 0..(MaxElems - 1)}

SepOrEnd(ss, i) == IF i <= Len(ss) THEN ss[i] ELSE <<>>

\* x=[1 s1 2 s2 3]  for the Len(ss) + 1 elements 1, 2, ..
ArrayText(ss) ==
  <<"x", "=", "[">>
    \o Flat([i \in 1..(Len(ss) + 1) |-> NatToDigits(i) \o SepOrEnd(ss, i)]) \o <<"]">>

\* x={k1=1 s1 k2=2 s2 k3=3}
ObjectText(ss) ==
  <<"x", "=", "{">>
    \o Flat([i \in 1..(Len(ss) + 1) |->
               <<"k">> \o NatToDigits(i) \o <<"=">> \o NatToDigits(i) \o SepOrEnd(ss, i)])
    \o <<"}">>

SeparatedTexts ==
  UNION {{ArrayText(ss), ObjectText(ss)} : ss \in SepLists(BlankSeps \cup CommentSeps)}

\* a leading comma, or two commas in one of the separators
HasTwoCommas(ss) == \E i \in 1..Len(ss) : ss[i] \in TwoCommas

CommaErrorTexts ==
  {<<"x", "=", "[", ",", "1", "]">>, <<"x", "=", "[", " ", ",", "1", "]">>,
   <<"x", "=", "{", ",", "k", "1", "=", "1", "}">>}
    \cup UNION {{ArrayText(ss), ObjectText(ss)} :
                  ss \in {l \in SepLists({<<",">>} \cup TwoCommas) : HasTwoCommas(l)}}

\* bare keys that begin with the word schema, written as the key of a pair at
\* top level and inside an object
SchemaKeys ==
  {LitSchema, LitSchema \o <<"V">>, LitSchema \o <<"1">>, LitSchema \o <<"_", "x">>,
   LitSchema \o <<"s">>}

SchemaKeyAttrs == {<<>>, <<AttrA>>}

\* KEY @.. = 8
SchemaKeyPair(key, as, sep) ==
  key \o Clauses(as, <<" ">>) \o sep \o <<"=">> \o sep \o <<"8">>

SchemaKeyLeads == {<<>>, <<" ">>, EntryA, EntryComment}

SchemaKeyTails == {<<>>, <<" ", "b", "=", "2">>}

TopSchemaKeyTexts ==
  {lead \o SchemaKeyPair(key, as, sep) \o tail :
     lead \in SchemaKeyLeads, key \in SchemaKeys, as \in SchemaKeyAttrs,
     sep \in Seps, tail \in SchemaKeyTails}

NestedSchemaKeyTexts ==
  {InObject(SchemaKeyPair(key, as, sep)) :
     key \in SchemaKeys, as \in SchemaKeyAttrs, sep \in Seps}

\* the declaration written without a blank after the word: schemaU{i=n}
GluedSchemaTexts ==
  {LitSchema \o <<"U", "{", "i", "=", "n", "}">>,
   EntryA \o LitSchema \o <<"U", "{", "}", " ">> \o EntryA}

SchemaKeyTexts == TopSchemaKeyTexts \cup NestedSchemaKeyTexts \cup GluedSchemaTexts

Inputs ==
  {TextPort, TextInvalid} \cup AfterValueTexts
    \cup Texts(<<>>, AttrFrags, MaxFrags)
    \cup Texts(<<>>, DocFrags, MaxFrags)
    \cup Texts(<<>>, QuotedFrags, MaxFrags)
    \cup Texts(<<"x", "=">>, ListFrags, MaxFrags)
    \cup StringTexts \cup UnterminatedTexts
    \cup SchemaTexts \cup UnclosedSchemaTexts
    \cup KeyAttrsTexts \cup BadAttrTexts
    \cup TreeTexts
    \cup BadValueTexts
    \cup UnknownEscapeTexts
    \cup SeparatedTexts \cup CommaErrorTexts
    \cup SchemaKeyTexts

ScanInputs == Texts(<<>>, ScanChars, MaxFrags)

(***************************************************************************)
(* State machine                                                           *)
(***************************************************************************)
NotReturned == [returned |-> FALSE]
Unset == [set |-> FALSE]

\* new BringParser(text): pos = 0, line = 1, col = 1
Init ==
  /\ text \in Inputs
  /\ pos = 0
  /\ line = 1
  /\ col = 1
  /\ result = <<>>
  /\ pc = "loop"
  /\ err = NoError
  /\ ret = NotReturned
  /\ plain = Unset
  /\ json = Unset
  /\ extracted = Unset
  /\ calls = 1
  /\ first = Unset

SetCursor(c) == pos' = c.pos /\ line' = c.line /\ col' = c.col

\* parse() returning its result from inside the loop, input left unread
ParseReturnEarly ==
  /\ pc = "loop"
  /\ pc' = "returned"
  /\ ret' = [returned |-> TRUE, doc |-> result]
  /\ UNCHANGED <<text, pos, line, col, result, err, plain, json, extracted, calls, first>>

\* the loop of parse() ends: while (!isEof()) fails or the break is taken
ParseReturn ==
  /\ pc = "loop"
  /\ isEof(text, Cursor) \/ Branch(text, Cursor) = "eof"
  /\ SetCursor(IF isEof(text, Cursor) THEN Cursor ELSE skipWhitespace(text, Cursor))
  /\ pc' = "returned"
  /\ ret' = [returned |-> TRUE, doc |-> result]
  /\ UNCHANGED <<text, result, err, plain, json, extracted, calls, first>>

\* the loop starting over at the first character when it meets a comment
ParseCommentRestart ==
  /\ pc = "loop"
  /\ ~isEof(text, Cursor)
  /\ Branch(text, Cursor) = "comment"
  /\ SetCursor(StartCursor)
  /\ UNCHANGED <<text, result, pc, err, ret, plain, json, extracted, calls, first>>

\* one loop iteration that skips a comment
ParseComment ==
  /\ pc = "loop"
  /\ ~isEof(text, Cursor)
  /\ Branch(text, Cursor) = "comment"
  /\ SetCursor(parseIteration(text, Cursor, result).c)
  /\ UNCHANGED <<text, result, pc, err, ret, plain, json, extracted, calls, first>>

\* the effect of a loop iteration that stores an entry or throws
StoreOrThrow(it) ==
  /\ SetCursor(it.c)
  /\ IF it.ok
     THEN /\ result' = it.v
          /\ UNCHANGED <<pc, err>>
     ELSE /\ pc' = "thrown"
          /\ err' = error(it.c, it.v)
          /\ UNCHANGED result

\* one loop iteration that matches "schema" and parses a schema, or throws
ParseSchemaEntry ==
  /\ pc = "loop"
  /\ ~isEof(text, Cursor)
  /\ Branch(text, Cursor) = "schema"
  /\ StoreOrThrow(parseIteration(text, Cursor, result))
  /\ UNCHANGED <<text, ret, plain, json, extracted, calls, first>>

\* one loop iteration that parses a key/value pair, or throws
ParsePair ==
  /\ pc = "loop"
  /\ ~isEof(text, Cursor)
  /\ Branch(text, Cursor) = "pair"
  /\ StoreOrThrow(parseIteration(text, Cursor, result))
  /\ UNCHANGED <<text, ret, plain, json, extracted, calls, first>>

\* toObject(parse(text))
CallToObject ==
  /\ pc = "returned"
  /\ ~plain.set
  /\ plain' = [set |-> TRUE, v |-> toObject(ret.doc)]
  /\ UNCHANGED <<text, pos, line, col, result, pc, err, ret, json, extracted, calls, first>>

\* toJSON(parse(text)) with the default indent
CallToJSON ==
  /\ pc = "returned"
  /\ ~json.set
  /\ json' = [set |-> TRUE, v |-> toJSON(ret.doc, DefaultIndent)]
  /\ UNCHANGED <<text, pos, line, col, result, pc, err, ret, plain, extracted, calls, first>>

\* extractAttributes(result[key]) for a key of the Document bound to a Value
CallExtractAttributes ==
  /\ pc = "returned"
  /\ ~extracted.set
  /\ \E i \in 1..Len(ret.doc) :
       /\ isBringValue(ret.doc[i].val)
       /\ extracted' = [set |-> TRUE, key |-> ret.doc[i].key,
                        v |-> extractAttributes(ret.doc[i].val)]
  /\ UNCHANGED <<text, pos, line, col, result, pc, err, ret, plain, json, calls, first>>

Next ==
  \/ ParseReturn
  \/ ParseComment
  \/ ParseSchemaEntry
  \/ ParsePair
  \/ CallToObject
  \/ CallToJSON
  \/ CallExtractAttributes

Spec == Init /\ [][Next]_vars

(***************************************************************************)
(* parse() alone, on texts whose entries share keys                        *)
(***************************************************************************)
InitParse ==
  /\ text \in DupInputs
  /\ pos = 0
  /\ line = 1
  /\ col = 1
  /\ result = <<>>
  /\ pc = "loop"
  /\ err = NoError
  /\ ret = NotReturned
  /\ plain = Unset
  /\ json = Unset
  /\ extracted = Unset
  /\ calls = 1
  /\ first = Unset

NextParse ==
  \/ ParseReturn
  \/ ParseComment
  \/ ParseSchemaEntry
  \/ ParsePair

SpecParse == InitParse /\ [][NextParse]_vars

\* parse() runs on.  This is WF_vars(NextParse) with ENABLED <<NextParse>>_vars
\* written out as Running: a call that has not returned or thrown has a next
\* step, the end of its loop or one more iteration
Running == pc = "loop"

FairParse == []<>(~Running) \/ []<><<NextParse>>_vars

SpecTerminates == Init /\ [][NextParse]_vars /\ FairParse

(***************************************************************************)
(* parse called more than once on the same text: parse() again on the same *)
(* BringParser, or the module function, which makes a new BringParser      *)
(***************************************************************************)
MaxCalls == 2

AgainInputs ==
  DupInputs \cup {TextPort, TextInvalid, TextUnterminated, TextMissingBrace}

InitAgain ==
  /\ text \in AgainInputs
  /\ pos = 0
  /\ line = 1
  /\ col = 1
  /\ result = <<>>
  /\ pc = "loop"
  /\ err = NoError
  /\ ret = NotReturned
  /\ plain = Unset
  /\ json = Unset
  /\ extracted = Unset
  /\ calls = 1
  /\ first = Unset

\* what the call that has just ended gave its caller
Outcome == IF pc = "returned" THEN [ok |-> TRUE, doc |-> ret.doc] ELSE [ok |-> FALSE, err |-> err]

\* the caller keeps the outcome of its first call and calls again
NextCall ==
  /\ pc \in {"returned", "thrown"}
  /\ calls < MaxCalls
  /\ calls' = calls + 1
  /\ first' = IF first.set THEN first ELSE [set |-> TRUE, v |-> Outcome]
  /\ pc' = "loop"
  /\ err' = NoError
  /\ ret' = NotReturned

\* parser.parse() on the same instance: const result = {} and the loop; the
\* fields pos, line and col are assigned by the field initializers only
ParseAgain ==
  /\ NextCall
  /\ result' = <<>>
  /\ UNCHANGED <<text, pos, line, col, plain, json, extracted>>

\* parse(content): new BringParser(content).parse()
ParseFresh ==
  /\ NextCall
  /\ result' = <<>>
  /\ SetCursor(StartCursor)
  /\ UNCHANGED <<text, plain, json, extracted>>

NextAgain ==
  \/ ParseReturn
  \/ ParseComment
  \/ ParseSchemaEntry
  \/ ParsePair
  \/ ParseAgain
  \/ ParseFresh

SpecAgain == InitAgain /\ [][NextAgain]_vars

(***************************************************************************)
(* The scanner operations on their own, in any order                       *)
(***************************************************************************)
InitScan ==
  /\ text \in ScanInputs
  /\ pos = 0
  /\ line = 1
  /\ col = 1
  /\ result = <<>>
  /\ pc = "scan"
  /\ err = NoError
  /\ ret = NotReturned
  /\ plain = Unset
  /\ json = Unset
  /\ extracted = Unset
  /\ calls = 1
  /\ first = Unset

\* the effect of an operation that returns with cursor r.c or throws there
ReturnOrThrow(r) ==
  /\ SetCursor(r.c)
  /\ IF r.ok THEN UNCHANGED <<pc, err>>
     ELSE pc' = "thrown" /\ err' = error(r.c, r.v)

OpAdvance ==
  /\ pc = "scan"
  /\ SetCursor(advance(text, Cursor))
  /\ UNCHANGED <<text, result, pc, err, ret, plain, json, extracted, calls, first>>

OpMatch ==
  /\ pc = "scan"
  /\ \E s \in ScanLits : SetCursor(match(text, Cursor, s).c)
  /\ UNCHANGED <<text, result, pc, err, ret, plain, json, extracted, calls, first>>

OpExpect ==
  /\ pc = "scan"
  /\ \E s \in ScanLits : ReturnOrThrow(expect(text, Cursor, s))
  /\ UNCHANGED <<text, result, ret, plain, json, extracted, calls, first>>

OpSkipWhitespace ==
  /\ pc = "scan"
  /\ SetCursor(skipWhitespace(text, Cursor))
  /\ UNCHANGED <<text, result, pc, err, ret, plain, json, extracted, calls, first>>

OpSkipComment ==
  /\ pc = "scan"
  /\ ReturnOrThrow(skipComment(text, Cursor))
  /\ UNCHANGED <<text, result, ret, plain, json, extracted, calls, first>>

NextScan ==
  \/ OpAdvance
  \/ OpMatch
  \/ OpExpect
  \/ OpSkipWhitespace
  \/ OpSkipComment

SpecScan == InitScan /\ [][NextScan]_vars

(***************************************************************************)
(* The lexical helpers and parseValue called one at a time on a parser     *)
(* whose cursor earlier calls have moved; result keeps what the last call  *)
(* returned                                                                *)
(***************************************************************************)
MaxIdentLen == 3

IdentChars == {"a", "Z", "_", "1", "-"}

IdentTexts == UNION {[1..m -> IdentChars] : m \in 0..MaxIdentLen}

MaxValueFrags == 2

ValueFrags ==
  {<<"{">>, <<"}">>, <<"[">>, <<"]">>, <<"1">>, <<"-">>, <<"'", "a", "'">>, <<DQ>>,
   LitTrue, LitFalse, LitNull, <<"t">>, <<"x">>, <<"=">>, <<" ">>, <<NL>>, <<"#">>,
   <<"[", "1", " ", "[", "]", "]">>, <<"{", "x", "=", "1", "}">>}

ValueTexts == Texts(<<>>, ValueFrags, MaxValueFrags)

\* literals with the next token written right after them
TextTrueB == <<"a", " ", "=", " ">> \o LitTrue \o <<"b", " ", "=", " ", "1">>
TextTrueFalse == <<"[">> \o LitTrue \o LitFalse \o <<"]">>

GluedLiteralTexts ==
  {TextTrueB, TextTrueFalse, <<"x", "=">> \o TextTrueFalse,
   <<"a", "=">> \o LitNull \o <<"b", "=">> \o LitFalse \o <<"c", "=">> \o LitTrue,
   <<"[">> \o LitNull \o LitTrue \o LitNull \o <<"1", "]">>,
   <<"a", "=">> \o LitFalse \o <<"_">>}

LexLits == {<<"=">>, <<"t">>, LitTrue, <<"a", "Z">>, <<NL>>, <<"x", "=">>}

\* the caller goes on with single methods (pc = "scan") or with parse()
InitLex ==
  /\ text \in IdentTexts \cup ValueTexts \cup AgainInputs \cup GluedLiteralTexts
  /\ pos = 0
  /\ line = 1
  /\ col = 1
  /\ \/ /\ pc = "scan"
        /\ calls = 0
        /\ result = [op |-> "constructor", arg |-> <<>>, ok |-> TRUE, v |-> <<>>]
     \/ /\ pc = "loop"
        /\ calls = 1
        /\ result = <<>>
  /\ err = NoError
  /\ ret = NotReturned
  /\ plain = Unset
  /\ json = Unset
  /\ extracted = Unset
  /\ first = Unset

\* a method that returns r.v with the cursor at r.c, or throws there
CallReturns(op, arg, r) ==
  /\ SetCursor(r.c)
  /\ result' = [op |-> op, arg |-> arg, ok |-> r.ok, v |-> r.v]
  /\ IF r.ok THEN UNCHANGED <<pc, err>>
     ELSE pc' = "thrown" /\ err' = error(r.c, r.v)
  /\ UNCHANGED <<text, ret, plain, json, extracted, calls, first>>

LexPeek ==
  /\ pc = "scan"
  /\ CallReturns("peek", <<>>, Ok(Cursor, peek(text, Cursor)))

LexAdvance ==
  /\ pc = "scan"
  /\ CallReturns("advance", <<>>, Ok(advance(text, Cursor), advanceChar(text, Cursor)))

LexMatch ==
  /\ pc = "scan"
  /\ \E s \in LexLits : CallReturns("match", s, match(text, Cursor, s))

LexExpect ==
  /\ pc = "scan"
  /\ \E s \in LexLits : CallReturns("expect", s, expect(text, Cursor, s))

LexParseIdentifier ==
  /\ pc = "scan"
  /\ CallReturns("parseIdentifier", <<>>, parseIdentifier(text, Cursor))

LexParseValue ==
  /\ pc = "scan"
  /\ CallReturns("parseValue", <<>>, parseValue(text, Cursor))

NextLex ==
  \/ LexPeek
  \/ LexAdvance
  \/ LexMatch
  \/ LexExpect
  \/ LexParseIdentifier
  \/ LexParseValue
  \/ ParseReturn
  \/ ParseComment
  \/ ParseSchemaEntry
  \/ ParsePair

SpecLex == InitLex /\ [][NextLex]_vars

(***************************************************************************)
(* parseNumber on its own, at the start of a text that begins as its       *)
(* callers require: with "-" or a digit                                    *)
(***************************************************************************)
MaxNumLen == 3

NumChars == {"-", "0", "1", "5", ".", "a"}

NumberTexts ==
  {t \in UNION {[1..m -> NumChars] : m \in 1..MaxNumLen} :
     t[1] = "-" \/ isDigit(t[1])}

InitNumber ==
  /\ text \in NumberTexts
  /\ pos = 0
  /\ line = 1
  /\ col = 1
  /\ result = <<>>
  /\ pc = "number"
  /\ err = NoError
  /\ ret = NotReturned
  /\ plain = Unset
  /\ json = Unset
  /\ extracted = Unset
  /\ calls = 1
  /\ first = Unset

\* parseNumber(): the number returned is kept in result
NumberOrThrow(r) ==
  /\ SetCursor(r.c)
  /\ IF r.ok
     THEN /\ result' = r.v
          /\ pc' = "numbered"
          /\ UNCHANGED err
     ELSE /\ pc' = "thrown"
          /\ err' = error(r.c, r.v)
          /\ UNCHANGED result

OpParseNumber ==
  /\ pc = "number"
  /\ NumberOrThrow(parseNumber(text, Cursor))
  /\ UNCHANGED <<text, ret, plain, json, extracted, calls, first>>

NextNumber == OpParseNumber

SpecNumber == InitNumber /\ [][NextNumber]_vars

(***************************************************************************)
(* Claims                                                                  *)
(***************************************************************************)
Returned == pc = "returned"
Thrown == pc = "thrown"

ValueWithAttrs(v, attrs) == [BringPrimitive(v) EXCEPT !.attributes = attrs]

ExpectedAttrs(as) == [i \in 1..Len(as) |-> AttrOf(as[i])]

\* C1: a pair written key = value @a=s1 @b=s2, at top level or inside an
\* object, is accepted and the Value under the key carries exactly those
\* attributes in source order; port = 8080 @min=1024 @max=65535 gives 8080
\* with the attributes min: 1024, max: 65535.
C1_AttributesAfterValue ==
  /\ \A as \in AttrSeqs :
       /\ text = PairThenAttrs(as) =>
            /\ ~Thrown
            /\ Returned =>
                 /\ HasKey(ret.doc, <<"p">>)
                 /\ Get(ret.doc, <<"p">>)
                      = ValueWithAttrs(Num(FALSE, 8, <<>>), ExpectedAttrs(as))
       /\ text = NestedPairThenAttrs(as) =>
            /\ ~Thrown
            /\ Returned =>
                 /\ HasKey(ret.doc, <<"q">>)
                 /\ Get(ret.doc, <<"q">>).type = "object"
                 /\ HasKey(Get(ret.doc, <<"q">>).items, <<"p">>)
                 /\ Get(Get(ret.doc, <<"q">>).items, <<"p">>)
                      = ValueWithAttrs(Num(FALSE, 8, <<>>), ExpectedAttrs(as))
  /\ text = TextPort =>
       /\ ~Thrown
       /\ Returned =>
            /\ HasKey(ret.doc, <<"p", "o", "r", "t">>)
            /\ Get(ret.doc, <<"p", "o", "r", "t">>)
                 = ValueWithAttrs(Num(FALSE, 8080, <<>>),
                     <<[name |-> <<"m", "i", "n">>, value |-> Num(FALSE, 1024, <<>>)],
                       [name |-> <<"m", "a", "x">>, value |-> Num(FALSE, 65535, <<>>)]>>)

\* the scalars, maps and lists a Value stands for
RECURSIVE Projection(_)
Projection(v) ==
  IF v.type = "primitive" THEN v.value
  ELSE IF v.type = "object"
  THEN Obj([i \in 1..Len(v.items) |->
             [key |-> v.items[i].key, val |-> Projection(v.items[i].val)]])
  ELSE Arr([i \in 1..Len(v.items) |-> Projection(v.items[i])])

\* equality of plain data up to the order of object keys
RECURSIVE SameData(_, _)
SameData(x, y) ==
  IF x.k # y.k THEN FALSE
  ELSE IF x.k = "obj"
  THEN /\ Keys(x.items) = Keys(y.items)
       /\ \A key \in Keys(x.items) : SameData(Get(x.items, key), Get(y.items, key))
  ELSE IF x.k = "arr"
  THEN /\ Len(x.items) = Len(y.items)
       /\ \A i \in 1..Len(x.items) : SameData(x.items[i], y.items[i])
  ELSE x = y

ValueKeys(doc) == {doc[i].key : i \in {j \in 1..Len(doc) : isBringValue(doc[j].val)}}

\* C2: toObject(parse(x)) maps every top-level key bound to a primitive to
\* that primitive's scalar, whatever the key's name, and projects nested
\* objects and arrays recursively to plain maps and lists.
C2_ToObjectProjectsEveryKey ==
  plain.set =>
    /\ plain.v.k = "obj"
    /\ \A key \in ValueKeys(ret.doc) :
         /\ HasKey(plain.v.items, key)
         /\ SameData(Get(plain.v.items, key), Projection(Get(ret.doc, key)))

\* C3: toObject of a parsed Document has no key of the form schema:<Name> and
\* holds no Schema record.
C3_NoSchemaInToObject ==
  plain.set =>
    /\ plain.v.k = "obj"
    /\ \A key \in Keys(plain.v.items) : ~startsWith(key, SchemaPrefix, 0)
    /\ \A i \in 1..Len(ret.doc) :
         isBringSchema(ret.doc[i].val) =>
           \A key \in Keys(plain.v.items) :
             Get(plain.v.items, key) # plainSchema(ret.doc[i].val)

\* C4: the keys of toObject(Document) are exactly the Document keys bound to
\* Values: schema declarations are dropped and no ordinary pair is lost.
C4_ToObjectKeepsValueKeys ==
  plain.set =>
    /\ plain.v.k = "obj"
    /\ Keys(plain.v.items) = ValueKeys(ret.doc)

\* C8: parse returns a Document only with the whole input consumed and no
\* error; at the first syntax error it throws and returns nothing, however
\* many entries it had parsed before.
C8_NoPartialDocument ==
  /\ ret.returned => Returned /\ pos = Len(text) /\ ~err.thrown /\ ret.doc = result
  /\ Returned => ret.returned
  /\ Thrown => err.thrown /\ ~ret.returned
  /\ err.thrown => Thrown

\* an error was thrown after entries had been parsed
C8_Witness == Thrown /\ Len(result) > 0 /\ ~ret.returned

\* C9: every error carries line >= 1, column >= 1 and the cursor offset, within
\* 0..length; for "invalid = @#$" the error is on line 1 at the offset of the
\* "@" with a column at or after the column of the "@".
C9_ErrorPosition ==
  Thrown =>
    /\ err.line >= 1
    /\ err.column >= 1
    /\ err.position = pos
    /\ err.position >= 0
    /\ err.position <= Len(text)
    /\ text = TextInvalid =>
         /\ err.line = 1
         /\ err.position = 10
         /\ text[err.position + 1] = "@"
         /\ err.column >= 11

\* the error of "invalid = @#$"
C9_Witness == Thrown /\ text = TextInvalid /\ err.position = 10

\* the line and column of offset p in t, counted from the characters in front of it
TrueLine(t, p) == 1 + Cardinality({i \in 1..p : t[i] = NL})

LastNewline(t, p) ==
  LET nls == {i \in 1..p : t[i] = NL}
  IN IF nls = {} THEN 0 ELSE CHOOSE i \in nls : \A j \in nls : j <= i

TrueColumn(t, p) == 1 + (p - LastNewline(t, p))

\* C10: after any sequence of advance, match, expect, skipWhitespace and
\* skipComment, line is 1 plus the newlines in text[0, pos) and column is 1 plus
\* the characters consumed since the last newline.
C10_CursorInvariant ==
  /\ line = TrueLine(text, pos)
  /\ col = TrueColumn(text, pos)

(***************************************************************************)
(* Where the tokens of a text are: the lexical mode after its first i      *)
(* characters ("code", inside a string literal, after a backslash in one,  *)
(* or inside a comment).                                                   *)
(***************************************************************************)
\* the mode after one more character ch
ModeStep(m, ch) ==
  CASE m = "code" ->
         IF ch = DQ THEN "dq" ELSE IF ch = SQ THEN "sq"
         ELSE IF ch = "#" THEN "comment" ELSE "code"
    [] m = "dq" -> IF ch = BS THEN "dqesc" ELSE IF ch = DQ THEN "code" ELSE "dq"
    [] m = "sq" -> IF ch = BS THEN "sqesc" ELSE IF ch = SQ THEN "code" ELSE "sq"
    [] m = "dqesc" -> "dq"
    [] m = "sqesc" -> "sq"
    [] m = "comment" -> IF ch = NL THEN "code" ELSE "comment"

RECURSIVE ModeAfter(_, _)
ModeAfter(t, i) ==
  IF i = 0 THEN "code" ELSE ModeStep(ModeAfter(t, i - 1), t[i])

\* the modes after 1, 2, .. Len(t) characters of t
RECURSIVE ModesFrom(_, _, _)
ModesFrom(t, i, ms) ==
  IF i > Len(t) THEN ms
  ELSE ModesFrom(t, i + 1,
                 Append(ms, ModeStep(IF i = 1 THEN "code" ELSE ms[i - 1], t[i])))

Modes(t) == ModesFrom(t, 1, <<>>)

\* the characters outside string literals and comments, from the modes ms
CodeCharsOf(ms) ==
  {i \in 1..Len(ms) : ms[i] = "code" /\ (i = 1 \/ ms[i - 1] = "code")}

CodeChars(t) == CodeCharsOf(Modes(t))

\* character i is outside string literals and comments
IsCode(t, i) == ModeAfter(t, i - 1) = "code" /\ ModeAfter(t, i) = "code"

\* character i belongs to a token: it is neither whitespace between tokens
\* nor part of a comment
IsSignificant(t, i) ==
  /\ ModeAfter(t, i - 1) # "comment"
  /\ ModeAfter(t, i) # "comment"
  /\ ~(ModeAfter(t, i - 1) = "code" /\ isSpace(t[i]))

Least(S) == CHOOSE x \in S : \A y \in S : x <= y
Greatest(S) == CHOOSE x \in S : \A y \in S : y <= x

NextTokenChar(t, i) ==
  LET js == {j \in (i + 1)..Len(t) : IsSignificant(t, j)}
  IN IF js = {} THEN EOFCHAR ELSE t[Least(js)]

PrevTokenChar(t, i) ==
  LET js == {j \in 1..(i - 1) : IsSignificant(t, j)}
  IN IF js = {} THEN EOFCHAR ELSE t[Greatest(js)]

RemoveAt(t, i) == SubSeq(t, 1, i - 1) \o SubSeq(t, i + 1, Len(t))

InsertAt0(t, i, w) == SubSeq(t, 1, i) \o w \o SubSeq(t, i + 1, Len(t))

\* character i is a comma that follows an element and stands before a closer
TrailingCommaAt(t, i) ==
  /\ IsCode(t, i)
  /\ t[i] = ","
  /\ NextTokenChar(t, i) \in {"]", "}"}
  /\ PrevTokenChar(t, i) \notin {",", "[", "{", EOFCHAR}

NoSchemas(doc) == \A i \in 1..Len(doc) : isBringValue(doc[i].val)

\* C7: a single trailing comma before the closing "}" of an object or "]" of
\* an array is accepted, and the parse gives what the same input without
\* that comma gives.
C7_TrailingComma ==
  \A i \in 1..Len(text) :
    TrailingCommaAt(text, i) =>
      LET without == parse(RemoveAt(text, i))
      IN (without.ok /\ NoSchemas(without.v)) =>
           /\ ~Thrown
           /\ Returned => ret.doc = without.v

\* characters that continue an identifier, a keyword or a number
isWordChar(ch) == isIdentPart(ch) \/ ch \in {".", "-"}

\* the offsets 0..Len(t) that lie between two adjacent tokens of t, or in
\* front of the first or behind the last: outside string literals and comments
\* and not inside a word
TokenBoundaries(t) ==
  {i \in 0..Len(t) :
     /\ ModeAfter(t, i) = "code"
     /\ ~(i >= 1 /\ i < Len(t) /\ isWordChar(t[i]) /\ isWordChar(t[i + 1]))}

\* a blank, a blank line, a comment ended by a newline
Fillers == {<<SP>>, <<NL>>, <<"#", "c", NL>>}

\* C6: for every accepted input, inserting blanks, blank lines or #-comments
\* between any two adjacent tokens outside string literals gives an input
\* that is accepted too, with the same toObject result.
C6_WhitespaceCommentInsensitive ==
  Returned =>
    \A i \in TokenBoundaries(text) : \A w \in Fillers :
      LET padded == parse(InsertAt0(text, i, w))
      IN /\ padded.ok
         /\ SameData(toObject(padded.v), toObject(ret.doc))

(***************************************************************************)
(* A JSON reader (ECMA-404 grammar, JSON.parse's result): the value a JSON *)
(* text denotes, or failure when the text is not valid JSON.  Indices are  *)
(* 1-based; \b, \f and \u escapes and exponents are not read, the          *)
(* serializer above never writes them.                                     *)
(***************************************************************************)
JOk(i, v) == [ok |-> TRUE, i |-> i, v |-> v]
JFail(i) == [ok |-> FALSE, i |-> i, v |-> Null]

JChar(t, i) == IF i <= Len(t) THEN t[i] ELSE EOFCHAR

RECURSIVE JsonWs(_, _)
JsonWs(t, i) == IF JChar(t, i) \in {SP, TAB, NL, CR} THEN JsonWs(t, i + 1) ELSE i

RECURSIVE JsonString(_, _, _)
JsonString(t, i, acc) ==
  LET ch == JChar(t, i)
  IN IF ch = EOFCHAR \/ ch \in {NL, TAB, CR} THEN JFail(i)
     ELSE IF ch = DQ THEN JOk(i + 1, acc)
     ELSE IF ch = BS
     THEN LET e == JChar(t, i + 1)
          IN IF e \in {DQ, BS, "/"} THEN JsonString(t, i + 2, Append(acc, e))
             ELSE IF e = "n" THEN JsonString(t, i + 2, Append(acc, NL))
             ELSE IF e = "t" THEN JsonString(t, i + 2, Append(acc, TAB))
             ELSE IF e = "r" THEN JsonString(t, i + 2, Append(acc, CR))
             ELSE JFail(i + 1)
     ELSE JsonString(t, i + 1, Append(acc, ch))

RECURSIVE JsonDigitsEnd(_, _)
JsonDigitsEnd(t, i) == IF isDigit(JChar(t, i)) THEN JsonDigitsEnd(t, i + 1) ELSE i

JsonNumber(t, i) ==
  LET neg == JChar(t, i) = "-"
      i1 == IF neg THEN i + 1 ELSE i
      i2 == JsonDigitsEnd(t, i1)
  IN IF i2 = i1 \/ (JChar(t, i1) = "0" /\ i2 > i1 + 1) THEN JFail(i1)
     ELSE IF JChar(t, i2) = "."
     THEN LET i3 == JsonDigitsEnd(t, i2 + 1)
          IN IF i3 = i2 + 1 \/ JChar(t, i3) \in {"e", "E"} THEN JFail(i3)
             ELSE JOk(i3, Num(neg, IntOfDigits(SubSeq(t, i1, i2 - 1)),
                              StripZeros(SubSeq(t, i2 + 1, i3 - 1))))
     ELSE IF JChar(t, i2) \in {"e", "E"} THEN JFail(i2)
     ELSE JOk(i2, Num(neg, IntOfDigits(SubSeq(t, i1, i2 - 1)), <<>>))

RECURSIVE JsonValue(_, _)
RECURSIVE JsonElements(_, _, _)
RECURSIVE JsonMembers(_, _, _)

\* the elements of an array after "[" or ","
JsonElements(t, i, acc) ==
  LET e == JsonValue(t, i)
  IN IF ~e.ok THEN e
     ELSE LET j == JsonWs(t, e.i)
          IN IF JChar(t, j) = "," THEN JsonElements(t, j + 1, Append(acc, e.v))
             ELSE IF JChar(t, j) = "]" THEN JOk(j + 1, Arr(Append(acc, e.v)))
             ELSE JFail(j)

\* the members of an object after "{" or ","
JsonMembers(t, i, acc) ==
  LET j == JsonWs(t, i)
  IN IF JChar(t, j) # DQ THEN JFail(j)
     ELSE LET key == JsonString(t, j + 1, <<>>)
          IN IF ~key.ok THEN key
             ELSE LET c == JsonWs(t, key.i)
                  IN IF JChar(t, c) # ":" THEN JFail(c)
                     ELSE LET m == JsonValue(t, c + 1)
                          IN IF ~m.ok THEN m
                             ELSE LET n == JsonWs(t, m.i)
                                  IN IF JChar(t, n) = ","
                                     THEN JsonMembers(t, n + 1, PutOwn(acc, key.v, m.v))
                                     ELSE IF JChar(t, n) = "}"
                                     THEN JOk(n + 1, Obj(PutOwn(acc, key.v, m.v)))
                                     ELSE JFail(n)

JsonValue(t, i) ==
  LET j == JsonWs(t, i)
      ch == JChar(t, j)
  IN IF ch = "{"
     THEN IF JChar(t, JsonWs(t, j + 1)) = "}" THEN JOk(JsonWs(t, j + 1) + 1, Obj(<<>>))
          ELSE JsonMembers(t, j + 1, <<>>)
     ELSE IF ch = "["
     THEN IF JChar(t, JsonWs(t, j + 1)) = "]" THEN JOk(JsonWs(t, j + 1) + 1, Arr(<<>>))
          ELSE JsonElements(t, j + 1, <<>>)
     ELSE IF ch = DQ
     THEN LET str == JsonString(t, j + 1, <<>>)
          IN IF str.ok THEN JOk(str.i, Str(str.v)) ELSE str
     ELSE IF ch = "-" \/ isDigit(ch) THEN JsonNumber(t, j)
     ELSE IF startsWith(t, LitTrue, j - 1) THEN JOk(j + 4, Bool(TRUE))
     ELSE IF startsWith(t, LitFalse, j - 1) THEN JOk(j + 5, Bool(FALSE))
     ELSE IF startsWith(t, LitNull, j - 1) THEN JOk(j + 4, Null)
     ELSE JFail(j)

\* the whole text is one JSON value
JsonRead(t) ==
  LET r == JsonValue(t, 1)
  IN IF r.ok /\ JsonWs(t, r.i) = Len(t) + 1 THEN r ELSE JFail(r.i)

\* C5: for every accepted input, toJSON(parse(x)) is valid JSON text and a JSON
\* reader gets from it data structurally equal to toObject(parse(x)).
C5_JsonRoundTrip ==
  json.set =>
    /\ JsonRead(json.v).ok
    /\ SameData(JsonRead(json.v).v, toObject(ret.doc))

\* the text ends inside a string literal: its closing quote is missing
EndsInString(t) ==
  t # <<>> /\ Modes(t)[Len(t)] \in {"dq", "sq", "dqesc", "sqesc"}

\* C11: a text that ends inside a string literal, right after a backslash
\* included, makes parse throw; no Document is returned for it, so no entry
\* holds the characters read so far as a string or as a key.
C11_UnterminatedString ==
  EndsInString(text) =>
    /\ ~parse(text).ok
    /\ ~ret.returned
    /\ ~Returned

\* the input ended right after a backslash inside a literal
C11_Witness ==
  /\ Thrown
  /\ text \in UnterminatedTexts
  /\ text[Len(text)] = BS
  /\ err.message = "Unterminated string"
  /\ err.position = Len(text)

\* the "{" and "[" of t outside string literals and comments, and the closers
Openers(t) == {i \in CodeChars(t) : t[i] \in {"{", "["}}
Closers(t) == {i \in CodeChars(t) : t[i] \in {"}", "]"}}

\* some object, array or schema body of t is still open where t ends
Unclosed(t) == Cardinality(Openers(t)) > Cardinality(Closers(t))

\* C12: a text that ends with an object, array or schema body still open, at
\* any nesting depth, makes parse throw; no Document is returned for it.
C12_UnclosedContainer ==
  Unclosed(text) =>
    /\ ~parse(text).ok
    /\ ~ret.returned
    /\ ~Returned

\* an array left open inside an object inside an array: the error is at the
\* end of the input
C12_Witness ==
  /\ Thrown
  /\ Unclosed(text)
  /\ Cardinality(Openers(text)) - Cardinality(Closers(text)) >= 2
  /\ err.position = Len(text)
  /\ err.message = "Expected literal"

\* the character a piece of a literal stands for
PieceChar(piece) ==
  CASE piece = <<BS, "n">> -> NL
    [] piece = <<BS, "t">> -> TAB
    [] piece = <<BS, "r">> -> CR
    [] piece = <<BS, BS>> -> BS
    [] piece = <<BS, DQ>> -> DQ
    [] piece = <<BS, SQ>> -> SQ
    [] OTHER -> piece[1]

Decoded(body) == [i \in 1..Len(body) |-> PieceChar(body[i])]

\* C13: a literal made of the six escapes and of unescaped characters other
\* than its quote is accepted, as a value and as a key, and stands for one
\* character per piece: newline, tab, carriage return, backslash, double
\* quote, single quote for the escapes, the character itself otherwise; an
\* escaped quote does not end the literal.
C13_Escapes ==
  text \in StringTexts =>
    /\ parse(text).ok
    /\ ~Thrown
    /\ \A x \in QuotedBodies :
         /\ (Returned /\ text = <<"s", "=">> \o Literal(x.q, x.body)) =>
              ret.doc = <<[key |-> <<"s">>,
                           val |-> BringPrimitive(Str(Decoded(x.body)))]>>
         /\ (Returned /\ text = Literal(x.q, x.body) \o <<"=", "1">>) =>
              ret.doc = <<[key |-> Decoded(x.body),
                           val |-> BringPrimitive(Num(FALSE, 1, <<>>))]>>

\* "\"\n" parsed to a double quote and a newline
C13_Witness ==
  /\ Returned
  /\ text = <<"s", "=">> \o Literal(DQ, <<<<BS, DQ>>, <<BS, "n">>>>)
  /\ Get(ret.doc, <<"s">>).value = Str(<<DQ, NL>>)

\* the rules a list of rule descriptions declares
ExpectedRules(rs) ==
  [i \in 1..Len(rs) |->
     [key |-> rs[i].key, type |-> rs[i].type,
      attributes |-> ExpectedAttrs(rs[i].as)]]

KeySchemaU == <<"s", "c", "h", "e", "m", "a", ":", "U">>
KeySchemaUser == <<"s", "c", "h", "e", "m", "a", ":", "U", "s", "e", "r">>

\* C14: schema U { k1 = T1 attrs .. kn = Tn attrs } is accepted and stored
\* under schema:U as the Schema named U with exactly n rules in declaration
\* order, rule i with key ki, type Ti and the attributes written after Ti in
\* source order (none: the empty list); schema User { id = number @min=1 }
\* has one rule, key id, type number.
C14_SchemaStored ==
  text \in SchemaTexts =>
    /\ parse(text).ok
    /\ ~Thrown
    /\ \A rs \in RuleLists :
         (Returned /\ text = SchemaText(rs)) =>
           ret.doc = <<[key |-> KeySchemaU,
                        val |-> [name |-> <<"U">>, rules |-> ExpectedRules(rs)]]>>
    /\ (Returned /\ text = TextSchemaUser) =>
         /\ Keys(ret.doc) = {KeySchemaUser}
         /\ Get(ret.doc, KeySchemaUser).name = <<"U", "s", "e", "r">>
         /\ Get(ret.doc, KeySchemaUser).rules
              = <<[key |-> <<"i", "d">>,
                   type |-> <<"n", "u", "m", "b", "e", "r">>,
                   attributes |-> <<[name |-> <<"m", "i", "n">>,
                                     value |-> Num(FALSE, 1, <<>>)]>>]>>

\* a schema of two rules, the second with two attributes, has been stored
C14_Witness ==
  /\ Returned
  /\ text \in SchemaTexts
  /\ HasKey(ret.doc, KeySchemaU)
  /\ Len(Get(ret.doc, KeySchemaU).rules) = 2
  /\ Len(Get(ret.doc, KeySchemaU).rules[2].attributes) = 2

\* the entries of a list that store something, and the last one to store under key
Storing(es) == {i \in 1..Len(es) : es[i].stores}

LastOf(es, key) == Greatest({i \in Storing(es) : es[i].key = key})

\* the entries whose key another entry of the list has too
Repeated(es) ==
  {i \in Storing(es) : \E j \in Storing(es) : j # i /\ es[j].key = es[i].key}

Occurrences(doc, key) == Cardinality({j \in 1..Len(doc) : doc[j].key = key})

\* C15: a text whose entries repeat a key (a pair key written bare or quoted,
\* a key repeated inside an object, two schemas of one name, a schema U and a
\* pair with the quoted key "schema:U") is accepted, and the Document holds
\* each key written once, bound to what its last occurrence denotes.
C15_LastWriteWins ==
  text \in DupInputs =>
    /\ ~Thrown
    /\ \A es \in EntryLists :
         (Returned /\ text = EntriesText(es)) =>
           \A i \in Repeated(es) :
             /\ Occurrences(ret.doc, es[i].key) = 1
             /\ Get(ret.doc, es[i].key) = es[LastOf(es, es[i].key)].val

PairP(as) == [key |-> <<"p">>, val |-> ValueWithAttrs(Num(FALSE, 8, <<>>), ExpectedAttrs(as))]

\* C16: p @a=.. @b=.. = 8, at top level or inside an object, is accepted and
\* the Value 8 carries exactly the clauses written between the key and "=",
\* in source order, a repeated clause as often as written, and no attributes
\* when none is written; with a clause that lacks its "=" or without the "="
\* before the value parse throws.
C16_AttributesBeforeEq ==
  /\ text \in KeyAttrsTexts =>
       /\ parse(text).ok
       /\ ~Thrown
       /\ \A as \in AttrLists : \A sep \in Seps :
            /\ (Returned /\ text = KeyAttrsPair(as, sep)) =>
                 ret.doc = <<PairP(as)>>
            /\ (Returned /\ text = InObject(KeyAttrsPair(as, sep))) =>
                 ret.doc = <<[key |-> <<"q">>, val |-> BringObject(<<PairP(as)>>)]>>
  /\ text \in BadAttrTexts =>
       /\ ~parse(text).ok
       /\ ~Returned

\* p @a=1 @a=1 @b='x' = 8 parsed: three attributes, the repeated one twice
C16_Witness ==
  /\ Returned
  /\ text = KeyAttrsPair(<<AttrA, AttrA, AttrB>>, <<" ">>)
  /\ Len(Get(ret.doc, <<"p">>).attributes) = 3

\* a mapping from paths to attribute values; a later binding of a path
\* replaces the earlier one
NoPaths == [p \in {} |-> Null]

Bind(acc, p, v) == [q \in DOMAIN acc \cup {p} |-> IF q = p THEN v ELSE acc[q]]

AsMapping(entries) == [p \in Keys(entries) |-> Get(entries, p)]

\* path p extended by an object key or an attribute name, and by an array index
Dotted(p, name) == IF p = <<>> THEN name ELSE p \o <<".">> \o name
Indexed(p, i) == p \o <<"[">> \o NatToDigits(i) \o <<"]">>

\* the attribute paths of a written node at path p: its own attributes first,
\* then its members in written order or its elements by index
RECURSIVE PathsOf(_, _, _)
RECURSIVE PathsOfAttrs(_, _, _, _)
RECURSIVE PathsOfMembers(_, _, _, _)
RECURSIVE PathsOfElems(_, _, _, _)

PathsOfAttrs(attrs, i, p, acc) ==
  IF i > Len(attrs) THEN acc
  ELSE PathsOfAttrs(attrs, i + 1, p,
                    Bind(acc, Dotted(p, attrs[i].name), Num(FALSE, attrs[i].n, <<>>)))

PathsOfMembers(ms, i, p, acc) ==
  IF i > Len(ms) THEN acc
  ELSE PathsOfMembers(ms, i + 1, p, PathsOf(ms[i].node, Dotted(p, ms[i].key), acc))

PathsOfElems(es, i, p, acc) ==
  IF i > Len(es) THEN acc
  ELSE PathsOfElems(es, i + 1, p, PathsOf(es[i], Indexed(p, i - 1), acc))

PathsOf(d, p, acc) ==
  CASE d.kind = "prim" -> PathsOfAttrs(d.attrs, 1, p, acc)
    [] d.kind = "obj" -> PathsOfMembers(d.members, 1, p, PathsOfAttrs(d.attrs, 1, p, acc))
    [] d.kind = "arr" -> PathsOfElems(d.elems, 1, p, PathsOfAttrs(d.attrs, 1, p, acc))

\* C17: extractAttributes of the Value parsed from a written node maps each
\* attribute path to its value: a for a root attribute, p.k for object key k
\* under p (k at the root), p[i] for array index i, p.a for attribute a of the
\* node at p, and for a path reached twice the value visited last, own
\* attributes before children, members in written order, elements by index.
C17_ExtractAttributes ==
  (text \in TreeTexts /\ extracted.set) =>
    \A root \in Roots :
      text = MemberText(root) =>
        AsMapping(extracted.v) = PathsOf(root.node, <<>>, NoPaths)

\* a list of attributes whose values are strings, numbers or booleans and
\* which are name/value pairs only
ScalarAttributes(attrs) ==
  \A i \in 1..Len(attrs) :
    /\ DOMAIN attrs[i] = {"name", "value"}
    /\ attrs[i].value.k \in {"str", "num", "bool"}

RECURSIVE ScalarAttributesIn(_)
ScalarAttributesIn(value) ==
  /\ ScalarAttributes(value.attributes)
  /\ value.type = "object" =>
       \A i \in 1..Len(value.items) : ScalarAttributesIn(value.items[i].val)
  /\ value.type = "array" =>
       \A i \in 1..Len(value.items) : ScalarAttributesIn(value.items[i])

ScalarAttributesInEntry(val) ==
  IF isBringSchema(val)
  THEN \A i \in 1..Len(val.rules) : ScalarAttributes(val.rules[i].attributes)
  ELSE ScalarAttributesIn(val)

C19_SameOutcome ==
  (first.set /\ pc \in {"returned", "thrown"}) => Outcome = first.v

\* the number of digits of t from index i on
RECURSIVE DigitRun(_, _)
DigitRun(t, i) == IF i <= Len(t) /\ t[i] \in Digits THEN 1 + DigitRun(t, i + 1) ELSE 0

\* the natural number written by the digits t[i..j]
RECURSIVE Written(_, _, _, _)
Written(t, i, j, acc) ==
  IF i > j THEN acc ELSE Written(t, i + 1, j, 10 * acc + DigitVal(t[i]))

RECURSIVE Pow10(_)
Pow10(n) == IF n = 0 THEN 1 ELSE 10 * Pow10(n - 1)

\* a literal read off the text: its length, and the number it denotes as
\* sign * units / 10^places
NumberLiteral(t) ==
  LET s == IF t[1] = "-" THEN 1 ELSE 0
      n == DigitRun(t, s + 1)
      d == s + n + 1
      m == DigitRun(t, d + 1)
  IN IF n = 0 THEN [fails |-> TRUE]
     ELSE IF d <= Len(t) /\ t[d] = "."
     THEN IF m = 0 THEN [fails |-> TRUE]
          ELSE [fails |-> FALSE, len |-> d + m, neg |-> s = 1,
                units |-> Written(t, s + 1, s + n, 0) * Pow10(m) + Written(t, d + 1, d + m, 0),
                places |-> m]
     ELSE [fails |-> FALSE, len |-> s + n, neg |-> s = 1,
           units |-> Written(t, s + 1, s + n, 0), places |-> 0]

\* the Number num is the number lit denotes (0 and -0 are the same number)
Denotes(num, lit) ==
  /\ num.k = "num"
  /\ (num.int * Pow10(Len(num.frac)) + Written(num.frac, 1, Len(num.frac), 0)) * Pow10(lit.places)
       = lit.units * Pow10(Len(num.frac))
  /\ lit.units # 0 => num.neg = lit.neg

\* C20: on a text that begins with "-" or a digit, parseNumber throws when
\* no digit follows the "-" or when the "." right after the integer digits
\* is not followed by a digit, at end of input too; otherwise it stops after
\* the longest prefix -?digits(.digits)? and returns the number that prefix
\* denotes.
C20_ParseNumber ==
  (text \in NumberTexts /\ pc \in {"numbered", "thrown"}) =>
    IF NumberLiteral(text).fails
    THEN pc = "thrown"
    ELSE /\ pc = "numbered"
         /\ pos = NumberLiteral(text).len
         /\ Denotes(result, NumberLiteral(text))

\* "1." : the decimal point at end of input
C20_Witness ==
  /\ pc = "thrown"
  /\ text = <<"1", ".">>
  /\ err.message = "Expected digit after decimal point"
  /\ err.position = 2

\* the characters [A-Za-z_] and [A-Za-z0-9_]
FirstChars == Letters \cup {"_"}
OtherChars == Letters \cup Digits \cup {"_"}

\* how many characters of t from offset p on are in the set cs
RECURSIVE RunOf(_, _, _)
RunOf(t, p, cs) == IF p < Len(t) /\ t[p + 1] \in cs THEN 1 + RunOf(t, p + 1, cs) ELSE 0

\* the length of the longest identifier at offset p of t, 0 when there is none
IdentifierLength(t, p) ==
  IF p < Len(t) /\ t[p + 1] \in FirstChars THEN 1 + RunOf(t, p + 1, OtherChars) ELSE 0

\* the step is a call of the method op
Calls(op) == pc = "scan" /\ result'.op = op

\* C21: a call of parseIdentifier returns the longest prefix of the remaining
\* input made of one character of [A-Za-z_] and then characters of
\* [A-Za-z0-9_], with the cursor right after it; when the current character
\* is not in [A-Za-z_], at end of input too, it throws at the cursor it was
\* called with and consumes nothing.
C21_ParseIdentifier ==
  [][Calls("parseIdentifier") =>
       IF IdentifierLength(text, pos) = 0
       THEN /\ pc' = "thrown"
            /\ <<pos', line', col'>> = <<pos, line, col>>
            /\ err'.position = pos
       ELSE /\ pc' = "scan"
            /\ result'.v = SubSeq(text, pos + 1, pos + IdentifierLength(text, pos))
            /\ pos' = pos + IdentifierLength(text, pos)
            /\ line' = line
            /\ col' = col + IdentifierLength(text, pos)]_vars

\* "1Z_" after advance(): parseIdentifier has returned Z_ and stands at the end
C21_Witness ==
  /\ calls = 0
  /\ text = <<"1", "Z", "_">>
  /\ result.op = "parseIdentifier"
  /\ result.ok
  /\ result.v = <<"Z", "_">>
  /\ pos = 3

\* the character at offset p of t, EOFCHAR at the end
CharAt(t, p) == IF p < Len(t) THEN t[p + 1] ELSE EOFCHAR

\* the characters s stand at offset p of t
StandsAt(t, p, s) == p + Len(s) <= Len(t) /\ SubSeq(t, p + 1, p + Len(s)) = s

\* what a call of parseValue at offset p of t has to give: the kind of Value
\* the lookahead selects, a literal, or "none" for any other lookahead
Lookahead(t, p) ==
  CASE CharAt(t, p) = "{" -> "object"
    [] CharAt(t, p) = "[" -> "array"
    [] CharAt(t, p) \in {DQ, SQ} -> "str"
    [] CharAt(t, p) \in Digits \cup {"-"} -> "num"
    [] StandsAt(t, p, LitTrue) -> "true"
    [] StandsAt(t, p, LitFalse) -> "false"
    [] StandsAt(t, p, LitNull) -> "null"
    [] OTHER -> "none"

LiteralOf(kind) ==
  CASE kind = "true" -> [lit |-> LitTrue, v |-> Bool(TRUE)]
    [] kind = "false" -> [lit |-> LitFalse, v |-> Bool(FALSE)]
    [] kind = "null" -> [lit |-> LitNull, v |-> Null]

\* C22: a call of parseValue gives an object for the lookahead "{", an array
\* for "[", a string primitive for a quote, a number primitive for a digit or
\* "-" (or the error of that reader, thrown after the lookahead was consumed),
\* the primitive true, false or null for these literals; for any other
\* lookahead, the end of input included, it throws "Unexpected character" at
\* the cursor it was called with and consumes nothing.
C22_ParseValueDispatch ==
  [][Calls("parseValue") =>
       CASE Lookahead(text, pos) \in {"object", "array"} ->
              IF result'.ok THEN result'.v.type = Lookahead(text, pos)
              ELSE pc' = "thrown" /\ pos' > pos
         [] Lookahead(text, pos) \in {"str", "num"} ->
              IF result'.ok
              THEN /\ result'.v.type = "primitive"
                   /\ result'.v.value.k = Lookahead(text, pos)
              ELSE pc' = "thrown" /\ pos' > pos
         [] Lookahead(text, pos) \in {"true", "false", "null"} ->
              /\ result'.ok
              /\ result'.v = BringPrimitive(LiteralOf(Lookahead(text, pos)).v)
              /\ pos' = pos + Len(LiteralOf(Lookahead(text, pos)).lit)
         [] OTHER ->
              /\ pc' = "thrown"
              /\ err'.message = "Unexpected character"
              /\ err'.position = pos
              /\ <<pos', line', col'>> = <<pos, line, col>>]_vars

\* "=" consumed and parseValue called at the end of input
C22_Witness ==
  /\ calls = 0
  /\ text = <<"=">>
  /\ pos = 1
  /\ pc = "thrown"
  /\ result.op = "parseValue"
  /\ err.message = "Unexpected character"

\* the character a piece stands for when a backslash in front of any other
\* character than n, t, r stands for that character
PieceCharAny(piece) ==
  IF piece \in UnknownEscapes THEN piece[2] ELSE PieceChar(piece)

DecodedAny(body) == [i \in 1..Len(body) |-> PieceCharAny(body[i])]

\* C23: a literal with a backslash in front of a character c other than n, t,
\* r, backslash and the quotes is accepted, as a value and as a key; the pair
\* stands for the one character c and the pieces after it are read as usual.
C23_UnknownEscape ==
  text \in UnknownEscapeTexts =>
    /\ parse(text).ok
    /\ ~Thrown
    /\ \A q \in Quotes : \A b \in UnknownBodies :
         /\ (Returned /\ text = <<"s", "=">> \o Literal(q, b)) =>
              ret.doc = <<[key |-> <<"s">>,
                           val |-> BringPrimitive(Str(DecodedAny(b)))]>>
         /\ (Returned /\ text = Literal(q, b) \o <<"=", "1">>) =>
              ret.doc = <<[key |-> DecodedAny(b),
                           val |-> BringPrimitive(Num(FALSE, 1, <<>>))]>>

\* s="\qa" parsed to the two characters q and a
C23_Witness ==
  /\ Returned
  /\ text = <<"s", "=">> \o Literal(DQ, <<<<BS, "q">>, <<"a">>>>)
  /\ Get(ret.doc, <<"s">>).value = Str(<<"q", "a">>)

\* C24: a call match(s) with s standing at the cursor returns true and leaves
\* pos Len(s) further; otherwise it returns false and pos, line and col are
\* unchanged.  A call expect(s) moves the cursor in the same way when s is
\* there; otherwise it throws an error whose position is the offset of the
\* call, pos, line and col unchanged.
C24_MatchExpect ==
  [][/\ Calls("match") =>
          IF StandsAt(text, pos, result'.arg)
          THEN /\ result'.v = TRUE
               /\ pos' = pos + Len(result'.arg)
          ELSE /\ result'.v = FALSE
               /\ <<pos', line', col'>> = <<pos, line, col>>
     /\ Calls("expect") =>
          IF StandsAt(text, pos, result'.arg)
          THEN /\ pc' = "scan"
               /\ pos' = pos + Len(result'.arg)
               /\ <<line', col'>> = <<advanceN(text, Cursor, Len(result'.arg)).line,
                                     advanceN(text, Cursor, Len(result'.arg)).col>>
          ELSE /\ pc' = "thrown"
               /\ err'.position = pos
               /\ <<pos', line', col'>> = <<pos, line, col>>]_vars

\* "tx": expect("true") has thrown at offset 0
C24_Witness ==
  /\ calls = 0
  /\ text = <<"t", "x">>
  /\ pc = "thrown"
  /\ result.op = "expect"
  /\ result.arg = LitTrue
  /\ pos = 0
  /\ err.position = 0

\* C26: pos stays within 0..Len(text) and no step takes it back, in the
\* states between the iterations of parse() and between single method calls;
\* a call of advance at the end of input returns the empty sentinel and leaves
\* pos, line and col as they were; a call of peek leaves them as they were.
C26_CursorBounds ==
  /\ [](0 <= pos /\ pos <= Len(text))
  /\ [][/\ pos' >= pos
        /\ (Calls("advance") /\ pos >= Len(text)) =>
             /\ result'.v = EOFCHAR
             /\ <<pos', line', col'>> = <<pos, line, col>>
        /\ Calls("peek") =>
             /\ result'.v = CharAt(text, pos)
             /\ <<pos', line', col'>> = <<pos, line, col>>]_vars

\* "a" consumed and advance called again at the end of input
C26_Witness ==
  /\ calls = 0
  /\ text = <<"a">>
  /\ pc = "scan"
  /\ result.op = "advance"
  /\ result.v = EOFCHAR
  /\ pos = 1

\* the elements 1..n and the pairs k1=1 .. kn=n
ElementsTo(n) == [i \in 1..n |-> BringPrimitive(Num(FALSE, i, <<>>))]

PairsTo(n) ==
  [i \in 1..n |-> [key |-> <<"k">> \o NatToDigits(i),
                   val |-> BringPrimitive(Num(FALSE, i, <<>>))]]

DocX(value) == <<[key |-> <<"x">>, val |-> value]>>

\* C25: between consecutive array elements and between consecutive object
\* pairs a comma may stand or not: with blanks, one comma, or a comment and
\* at most one comma between them the array holds the same elements and the
\* object the same pairs; a leading comma or two commas in a row make parse
\* throw.
C25_OptionalComma ==
  /\ text \in SeparatedTexts =>
       /\ parse(text).ok
       /\ ~Thrown
       /\ \A ss \in SepLists(BlankSeps \cup CommentSeps) :
            /\ (Returned /\ text = ArrayText(ss)) =>
                 ret.doc = DocX(BringArray(ElementsTo(Len(ss) + 1)))
            /\ (Returned /\ text = ObjectText(ss)) =>
                 ret.doc = DocX(BringObject(PairsTo(Len(ss) + 1)))
  /\ text \in CommaErrorTexts =>
       /\ ~parse(text).ok
       /\ ~Returned

\* an iteration that ends without an error ends further on than offset p
MovesOn(r, p) == r.ok => r.c.pos > p

At(p) == [pos |-> p, line |-> 1, col |-> 1]

\* at every offset of t where the condition of a loop holds, one iteration of
\* the loop throws or moves the cursor forward
LoopsMoveOn(t) ==
  \A p \in 0..(Len(t) - 1) :
    /\ t[p + 1] # "}" => MovesOn(objectIteration(t, At(p)), p)
    /\ t[p + 1] # "]" => MovesOn(arrayIteration(t, At(p)), p)
    /\ t[p + 1] # "}" => MovesOn(schemaIteration(t, At(p)), p)
    /\ t[p + 1] = "@" => MovesOn(attributeIteration(t, At(p)), p)
    /\ t[p + 1] \notin Quotes => MovesOn(stringIteration(t, At(p)), p)
    /\ t[p + 1] # NL => MovesOn(advanceIteration(t, At(p)), p)
    /\ t[p + 1] \in {SP, TAB, CR, NL} => MovesOn(whitespaceIteration(t, At(p)), p)

\* the iteration the top-level loop is about to run throws or moves on
TopLoopMovesOn ==
  (Running /\ ~isEof(text, Cursor) /\ Branch(text, Cursor) # "eof") =>
    MovesOn(parseIteration(text, Cursor, result), pos)

\* C27: parse ends on every input, by returning or by throwing: every
\* iteration of the object, array, schema, attribute, string, number,
\* identifier, comment and whitespace loops throws or moves the cursor
\* forward, every iteration of the top-level loop that does not end the call
\* moves pos forward, and every call reaches its return or its throw.
C27_Terminates ==
  /\ LoopsMoveOn(text)
  /\ []TopLoopMovesOn
  /\ [][(pc = "loop" /\ pc' = "loop") => pos' > pos]_vars
  /\ <>(pc \in {"returned", "thrown"})

\* x=[1#c
\* 2, 3] has been returned: the array loop has skipped a comment and a comma
C27_Witness ==
  /\ Returned
  /\ text = ArrayText(<<<<"#", "c", NL>>, <<",", " ">>>>)
  /\ Len(Get(ret.doc, <<"x">>).items) = 3

\* where the top-level entry the loop is about to read begins
EntryStart == skipWhitespace(text, Cursor).pos

\* the loop of parse() stands in front of an entry that begins with schema
AtSchemaWord == Running /\ StandsAt(text, EntryStart, LitSchema)

\* where the bare key at offset p ends, and the first character after the
\* blanks that follow it
BareKeyEnd(t, p) == p + IdentifierLength(t, p)

AfterBareKey(t, p) == CharAt(t, skipWhitespace(t, At(BareKeyEnd(t, p))).pos)

\* the entry is a pair whose bare key begins with schema
AtSchemaKey == AtSchemaWord /\ AfterBareKey(text, EntryStart) \in {"=", "@"}

\* the step stores one BringSchema under a key schema:<name>
StoresSchema ==
  /\ pc' = "loop"
  /\ \E i \in 1..Len(result') :
       /\ startsWith(result'[i].key, SchemaPrefix, 0)
       /\ isBringSchema(result'[i].val)
       /\ result' = Put(result, result'[i].key, result'[i].val)

\* the Document of q={KEY @.. = 8}
NestedKeyDoc(key, as) ==
  <<[key |-> <<"q">>,
     val |-> BringObject(<<[key |-> key,
                            val |-> [type |-> "primitive", value |-> Num(FALSE, 8, <<>>),
                                     attributes |-> [i \in 1..Len(as) |-> AttrOf(as[i])]]]>>)]>>

\* C28: a top-level entry that begins with the six characters schema is read
\* as a schema declaration whatever follows them: the step stores a schema
\* under schema:<name> or throws; when the entry is a pair whose bare key
\* begins with schema the step throws and stores nothing; the same pair
\* inside an object is returned under its literal key.
C28_SchemaPrefix ==
  /\ [][AtSchemaWord => (pc' = "thrown" \/ StoresSchema)]_vars
  /\ [][AtSchemaKey => (pc' = "thrown" /\ result' = result)]_vars
  /\ [](\A key \in SchemaKeys, as \in SchemaKeyAttrs, sep \in Seps :
          text = InObject(SchemaKeyPair(key, as, sep)) =>
            /\ ~Thrown
            /\ Returned => ret.doc = NestedKeyDoc(key, as))

\* a=1 schemaV = 8 has thrown at the "=" where parseSchema wants "{"
C28_Witness ==
  /\ Thrown
  /\ text = EntryA \o SchemaKeyPair(LitSchema \o <<"V">>, <<>>, <<" ">>)
  /\ err.position = 12
  /\ Len(result) = 1

\* q={schema=8} has been returned with the key schema in the object q
C28_WitnessNested ==
  /\ Returned
  /\ text = InObject(SchemaKeyPair(LitSchema, <<>>, <<>>))
  /\ ret.doc = NestedKeyDoc(LitSchema, <<>>)
\* C29: parseValue takes true, false and null as prefixes of what is left of
\* the input, whatever character follows: it returns the primitive with the
\* cursor right after the literal; so a = trueb = 1 is returned as the
\* entries a = true and b = 1, and [truefalse] is read as the array
\* [true, false].
C29_LiteralPrefix ==
  /\ [][Calls("parseValue") =>
         \A kind \in {"true", "false", "null"} :
           StandsAt(text, pos, LiteralOf(kind).lit) =>
             /\ result'.ok
             /\ result'.v = BringPrimitive(LiteralOf(kind).v)
             /\ pos' = pos + Len(LiteralOf(kind).lit)]_vars
  /\ [][(Calls("parseValue") /\ pos = 0 /\ text = TextTrueFalse) =>
         /\ result'.ok
         /\ result'.v = BringArray(<<BringPrimitive(Bool(TRUE)), BringPrimitive(Bool(FALSE))>>)
         /\ pos' = Len(text)]_vars
  /\ [][(Running /\ text = TextTrueB) => pc' # "thrown"]_vars
  /\ []((Returned /\ text = TextTrueB) =>
          ret.doc = <<[key |-> <<"a">>, val |-> BringPrimitive(Bool(TRUE))],
                      [key |-> <<"b">>, val |-> BringPrimitive(Num(FALSE, 1, <<>>))]>>)

\* a = trueb = 1 has been returned with its two entries
C29_Witness ==
  /\ Returned
  /\ text = TextTrueB
  /\ Len(ret.doc) = 2
  /\ ret.doc[1].val.value = Bool(TRUE)

\* parseValue called on [truefalse] has returned an array of two elements
C29_WitnessArray ==
  /\ calls = 0
  /\ pc = "scan"
  /\ text = TextTrueFalse
  /\ result.op = "parseValue"
  /\ result.ok
  /\ pos = 11
  /\ Len(result.v.items) = 2
\* C30: in every state of a parse the tracked line and column are at least
\* the true line and column of the cursor, and the line, column and position
\* of a thrown error are the tracked ones, so an error is never reported in
\* front of the place where it was raised.
C30_LineColumn ==
  /\ line >= TrueLine(text, pos)
  /\ col >= TrueColumn(text, pos)
  /\ err.thrown =>
       /\ err.position = pos
       /\ err.line = line
       /\ err.column = col
       /\ err.line >= TrueLine(text, err.position)
       /\ err.column >= TrueColumn(text, err.position)

\* b=null
\* a=$ has thrown at "$", which is on line 2, with line 3 in the error
C30_Witness ==
  /\ Thrown
  /\ text = EntryNull \o EntryBad
  /\ TrueLine(text, err.position) = 2
  /\ err.line = 3
  /\ err.column = TrueColumn(text, err.position)
====
